---------------------------- MODULE Spec2Model ----------------------------
(***************************************************************************)
(* Verification model of brensch/passengerprincess.                        *)
(*                                                                         *)
(* Spec      : the concurrent pipeline of maps.GetSuperchargersOnRoute     *)
(*             (search fan-out, collector, hydration through the cache,    *)
(*             processSuperchargers), run repeatedly against one database. *)
(* SpecCodec : the polyline codec (encodePolyline / decodePolyline of      *)
(*             cmd/api and DecodePolyline of pkg/maps) as pure functions.  *)
(* SpecMesh, SpecCircles, SpecProfile, SpecETA, SpecIndex : the geometry   *)
(*             and profile functions, each called on bounded arguments.    *)
(* SpecLive  : Spec with weak fairness of every goroutine's steps.         *)
(* SpecCache : two overlapping requests hydrating through one database.    *)
(***************************************************************************)
EXTENDS Integers, Sequences, FiniteSets, Bags, TLC

(***************************************************************************)
(* Bounds of the model.                                                    *)
(***************************************************************************)
MaxCircles == 2

\* Longest path given to the encoder, longest raw string given to the decoders.
MaxPathLen == 2

MaxEncLen == 4

\* Most points of a route given to PolylineToCircles.
MaxRoutePts == 3

\* Most steps of a leg.
MaxSteps == 2

\* The most points of a route given to buildPolylineIndex.
MaxIndexPts == 3

\* Largest height and width of a bounding box, in units of the mesh grid.
MaxBox == 6

\* Units of the mesh grid per half of the centre spacing of radius 1.
MeshRes == 2

\* The place identities the search provider knows along the route.
IDs == {1, 2}

VARIABLES
    pc,            \* position of the GetSuperchargersOnRoute call
    routePts,      \* points of the decoded route: 0, 1, or 2 (two or more)
    nCircles,      \* len(circles)
    ctxCancelled,  \* the derived context of line 1585 has been cancelled
    sPc,           \* per circle: position of its search goroutine
    sRes,          \* per circle: the searchResult its goroutine produced
    searchChan,    \* searchResultsChan: circles whose result is buffered
    sCloser,       \* the goroutine of line 1609: "idle", "waiting", "closed"
    seenPlaceIDs,  \* the map of line 1590, as the number of entries per key
    pendingErr,    \* res.err held by the collector between cancel() and return
    observedErrs,  \* history: the errors the collector has read, in order
    overlap,       \* history: identities that more than one read result held
    hPc,           \* per hydration goroutine: position in GetSuperchargerWithCache
    hLog,          \* history: collaborator calls of each hydration goroutine
    hRes,          \* per hydration goroutine: the superchargerResult it sent
    resultsChan,   \* resultsChan: hydration goroutines whose result is buffered
    hCloser,       \* the goroutine of line 1639: "idle", "waiting", "closed"
    procPending,   \* goroutines of processSuperchargers spawned, not yet run
    procDone,      \* goroutines of processSuperchargers that returned
    errChan,       \* errChan of processSuperchargers (capacity 1)
    superchargersWithETA, \* the slice of processSuperchargers, as a bag
    mu,            \* goroutines of processSuperchargers between mu.Lock() and mu.Unlock()
    catalog,       \* the display name the detail provider holds for each identity
    db,            \* rows of the superchargers table
    fetched,       \* history: per identity, the entity returned by the call that cached it
    resultVal,     \* returned *SuperchargersOnRouteResult
    resultErr,     \* returned error
    prevResult,    \* history: the result of the latest earlier successful call
    cpc,           \* codec run: position
    cPath,         \* codec run: the path given to encodePolyline
    cEnc,          \* codec run: the encoded string (a sequence of bytes)
    cOut,          \* codec run: what decodePolyline (cmd/api) returned
    cOut2,         \* codec run: what DecodePolyline (pkg/maps) returned
    fn,            \* call of a pure function: its position
    args,          \* call of a pure function: the arguments
    ret            \* call of a pure function: what it returned

pipeVars == <<pc, routePts, nCircles, ctxCancelled, sPc, sRes, searchChan,
              sCloser, seenPlaceIDs, pendingErr, observedErrs, overlap, hPc, hLog,
              hRes, resultsChan, hCloser, procPending, procDone, errChan,
              superchargersWithETA, db, fetched, resultVal, resultErr, prevResult,
              mu, catalog>>

codecVars == <<cpc, cPath, cEnc, cOut, cOut2>>

callVars == <<fn, args, ret>>

(***************************************************************************)
(* Values.                                                                 *)
(***************************************************************************)
Nil == [kind |-> "nil", at |-> 0]

Err(kind, at) == [kind |-> kind, at |-> at]

NoRow == [PlaceID |-> 0, Name |-> "", Address |-> "", Latitude |-> 0,
          Longitude |-> 0, IsSupercharger |-> FALSE]

NoResult == [ok |-> FALSE, Superchargers |-> EmptyBag, SearchCircles |-> 0]

NoSearchResult == [places |-> {}, err |-> Nil]

NoHydration == [supercharger |-> NoRow, err |-> Nil]

Circles == 1..MaxCircles

\* The identities with at least one entry in the map.
Keys(m) == {id \in IDs : m[id] > 0}

\* One hydration goroutine per entry of the map.
Tasks(m) == {t \in IDs \X Circles : t[2] <= m[t[1]]}


(***************************************************************************)
(* External collaborators (Google Routes / Places).  Their code is not in  *)
(* the repository; they are modelled as the interfaces of the pipeline:    *)
(* any call may fail, a call under a cancelled context may report the      *)
(* cancellation, and the provider's data about a place is stable.          *)
(***************************************************************************)
\* The provider's display names: the first place is a supercharger, the
\* second one a cafe or another supercharger.
Catalogs ==
    {[id \in IDs |-> IF id = 2 THEN n ELSE "Tesla Supercharger"] :
        n \in {"Roadside Cafe", "Tesla Supercharger"}}

\* The catalog in which the second place is a cafe.
CafeCatalog == [id \in IDs |-> IF id = 2 THEN "Roadside Cafe" ELSE "Tesla Supercharger"]

\* What the detail provider holds for a place identity.
PlaceDetails(id) ==
    [ID |-> id,
     DisplayName |-> catalog[id],
     FormattedAddress |-> IF id = 1 THEN "1 Main St" ELSE "2 Side Rd",
     Latitude |-> 3700000 + id,
     Longitude |-> -12200000 - id]

\* The outcomes of one text search for circle c.
GetPlacesViaTextSearch(c, cancelled) ==
    {[places |-> S, err |-> Nil] : S \in SUBSET IDs}
    \cup {[places |-> {}, err |-> Err("provider", c)]}
    \cup (IF cancelled THEN {[places |-> {}, err |-> Err("canceled", c)]} ELSE {})

\* The outcomes of one detail fetch for placeID.
GetPlaceDetails(placeID) ==
    {[details |-> PlaceDetails(placeID), err |-> Nil],
     [details |-> PlaceDetails(placeID), err |-> Err("details", placeID)]}

\* strings.Contains(strings.ToLower(text), "supercharger")
ContainsSupercharger(text) == text \in {"Tesla Supercharger"}

(***************************************************************************)
(* The superchargers table (pkg/db).                                       *)
(***************************************************************************)
\* The db.Supercharger built from the provider's details.
NewSupercharger(d, isSC) ==
    [PlaceID |-> d.ID, Name |-> d.DisplayName, Address |-> d.FormattedAddress,
     Latitude |-> d.Latitude, Longitude |-> d.Longitude, IsSupercharger |-> isSC]

\* GetByID with the Where clause lost: First returns a row of the table.
GetByIDFirstRow(rows, placeID) ==
    (IF rows # {}
       THEN {[row |-> r, err |-> Nil] : r \in rows}
       ELSE {[row |-> NoRow, err |-> Err("ErrRecordNotFound", placeID)]})
    \cup {[row |-> NoRow, err |-> Err("db", placeID)]}

\* SuperchargerRepository.GetByID: the row of the key, a definite not-found,
\* or another database error.
GetByID(rows, placeID) ==
    (IF \E r \in rows : r.PlaceID = placeID
       THEN {[row |-> r, err |-> Nil] : r \in {x \in rows : x.PlaceID = placeID}}
       ELSE {[row |-> NoRow, err |-> Err("ErrRecordNotFound", placeID)]})
    \cup {[row |-> NoRow, err |-> Err("db", placeID)]}

\* An insert into a table without a primary key.
CreateSuperchargerNoKey(rows, row) ==
    {[rows |-> rows \cup {row}, err |-> Nil],
     [rows |-> rows, err |-> Err("dbwrite", row.PlaceID)]}

\* SuperchargerRepository.Create / AddSuperchargerWithRestaurants: the insert
\* fails on a primary-key conflict or on any database error (the transaction
\* is rolled back); otherwise the row is added.
CreateSupercharger(rows, row) ==
    (IF \E r \in rows : r.PlaceID = row.PlaceID
       THEN {}
       ELSE {[rows |-> rows \cup {row}, err |-> Nil]})
    \cup {[rows |-> rows, err |-> Err("dbwrite", row.PlaceID)]}

(***************************************************************************)
(* Initial state: no call in progress, empty database.                     *)
(***************************************************************************)
InitPipeIn(catalogs) ==
    /\ catalog \in catalogs
    /\ pc = "start"
    /\ routePts = 0
    /\ nCircles = 0
    /\ ctxCancelled = FALSE
    /\ sPc = [c \in Circles |-> "idle"]
    /\ sRes = [c \in Circles |-> NoSearchResult]
    /\ searchChan = <<>>
    /\ sCloser = "idle"
    /\ seenPlaceIDs = [id \in IDs |-> 0]
    /\ pendingErr = Nil
    /\ observedErrs = <<>>
    /\ overlap = {}
    /\ hPc = [t \in IDs \X Circles |-> "none"]
    /\ hLog = [t \in IDs \X Circles |-> <<>>]
    /\ hRes = [t \in IDs \X Circles |-> NoHydration]
    /\ resultsChan = <<>>
    /\ hCloser = "idle"
    /\ procPending = {}
    /\ procDone = {}
    /\ errChan = <<>>
    /\ superchargersWithETA = EmptyBag
    /\ mu = {}
    /\ db = {}
    /\ fetched = [id \in IDs |-> NoRow]
    /\ resultVal = NoResult
    /\ resultErr = Nil
    /\ prevResult = [ok |-> FALSE, Superchargers |-> EmptyBag]

\* The pipeline at rest, as the calls of the single functions leave it.
InitPipe == InitPipeIn({CafeCatalog})


(***************************************************************************)
(* GetSuperchargersOnRoute, lines 1543-1612: route, decode, index, circles *)
(* and the fan-out of one search goroutine per circle plus the closer.     *)
(***************************************************************************)
\* GetRoute or DecodePolyline fails: the call returns before any goroutine.
BeginFail ==
    /\ pc = "start"
    /\ \E e \in {Err("route", 0), Err("decode", 0)} :
          /\ resultErr' = e
          /\ resultVal' = NoResult
    /\ pc' = "done"
    /\ UNCHANGED <<routePts, nCircles, ctxCancelled, sPc, sRes, searchChan,
                   sCloser, seenPlaceIDs, pendingErr, observedErrs, overlap, hPc, hLog,
                   hRes, resultsChan, hCloser, procPending, procDone, errChan,
                   superchargersWithETA, db, fetched, prevResult,
                   mu, catalog, codecVars, callVars>>

\* len(circles) for a decoded route: none for an empty route, one for a
\* single point, at least one otherwise (PolylineToCircles).
CircleCounts(pts) ==
    IF pts = 0 THEN {0} ELSE IF pts = 1 THEN {1} ELSE 1..MaxCircles

BeginOK ==
    /\ pc = "start"
    /\ \E pts \in 0..2 : \E n \in CircleCounts(pts) :
          /\ routePts' = pts
          /\ nCircles' = n
          /\ sPc' = [c \in Circles |-> IF c <= n THEN "running" ELSE "idle"]
    /\ sCloser' = "waiting"
    /\ pc' = "collect"
    /\ UNCHANGED <<ctxCancelled, sRes, searchChan, seenPlaceIDs, pendingErr,
                   observedErrs, overlap, hPc, hLog, hRes, resultsChan, hCloser,
                   procPending, procDone, errChan, superchargersWithETA, db,
                   fetched, resultVal, resultErr, prevResult,
                   mu, catalog, codecVars, callVars>>

\* The process is alive: the panic of a goroutine ends every goroutine.
Running == pc # "panicked"

\* The goroutine of lines 1602-1606: search, then send on the buffered channel.
SearchTask(c) ==
    /\ Running
    /\ sPc[c] = "running"
    /\ \E r \in GetPlacesViaTextSearch(c, ctxCancelled) :
          sRes' = [sRes EXCEPT ![c] = r]
    /\ searchChan' = Append(searchChan, c)
    /\ sPc' = [sPc EXCEPT ![c] = "done"]
    /\ UNCHANGED <<pc, routePts, nCircles, ctxCancelled, sCloser, seenPlaceIDs,
                   pendingErr, observedErrs, overlap, hPc, hLog, hRes, resultsChan,
                   hCloser, procPending, procDone, errChan,
                   superchargersWithETA, db, fetched, resultVal, resultErr,
                   prevResult,
                   mu, catalog, codecVars, callVars>>

\* The goroutine of lines 1609-1612: searchWg.Wait(); close(searchResultsChan).
SearchCloser ==
    /\ Running
    /\ sCloser = "waiting"
    /\ \A c \in Circles : sPc[c] # "running"
    /\ sCloser' = "closed"
    /\ UNCHANGED <<pc, routePts, nCircles, ctxCancelled, sPc, sRes, searchChan,
                   seenPlaceIDs, pendingErr, observedErrs, overlap, hPc, hLog, hRes,
                   resultsChan, hCloser, procPending, procDone, errChan,
                   superchargersWithETA, db, fetched, resultVal, resultErr,
                   prevResult,
                   mu, catalog, codecVars, callVars>>

(***************************************************************************)
(* The collector, lines 1614-1623.                                         *)
(***************************************************************************)
\* The identities kept in a slice instead of a map: one entry per insertion.
MapPutNoDedup(m, id) == [m EXCEPT ![id] = @ + 1]

\* seenPlaceIDs[place.ID] = struct{}{} : a map holds one entry per key.
MapPut(m, id) == [m EXCEPT ![id] = 1]

RECURSIVE MapPutAll(_, _)
MapPutAll(m, ids) ==
    IF ids = {} THEN m
    ELSE LET id == CHOOSE x \in ids : TRUE
         IN MapPutAll(MapPut(m, id), ids \ {id})

\* A received result without error: its places are added to the map.
CollectOK ==
    /\ pc = "collect"
    /\ searchChan # <<>>
    /\ sRes[Head(searchChan)].err = Nil
    /\ seenPlaceIDs' = MapPutAll(seenPlaceIDs, sRes[Head(searchChan)].places)
    /\ overlap' = overlap \cup (sRes[Head(searchChan)].places \cap Keys(seenPlaceIDs))
    /\ searchChan' = Tail(searchChan)
    /\ UNCHANGED <<pc, routePts, nCircles, ctxCancelled, sPc, sRes, sCloser,
                   pendingErr, observedErrs, hPc, hLog, hRes, resultsChan,
                   hCloser, procPending, procDone, errChan,
                   superchargersWithETA, db, fetched, resultVal, resultErr,
                   prevResult,
                   mu, catalog, codecVars, callVars>>

\* The collector logging a failed circle and going on with the next result.
CollectErrSkip ==
    /\ pc = "collect"
    /\ searchChan # <<>>
    /\ sRes[Head(searchChan)].err # Nil
    /\ observedErrs' = Append(observedErrs, sRes[Head(searchChan)].err)
    /\ searchChan' = Tail(searchChan)
    /\ UNCHANGED <<pc, routePts, nCircles, ctxCancelled, sPc, sRes, sCloser,
                   seenPlaceIDs, pendingErr, overlap, hPc, hLog, hRes,
                   resultsChan, hCloser, procPending, procDone, errChan,
                   superchargersWithETA, db, fetched, resultVal, resultErr,
                   prevResult, mu, catalog, codecVars, callVars>>

\* The collector returning on the first error without calling cancel().
CollectErrNoCancel ==
    /\ pc = "collect"
    /\ searchChan # <<>>
    /\ sRes[Head(searchChan)].err # Nil
    /\ observedErrs' = Append(observedErrs, sRes[Head(searchChan)].err)
    /\ pendingErr' = sRes[Head(searchChan)].err
    /\ searchChan' = Tail(searchChan)
    /\ pc' = "searchFailed"
    /\ UNCHANGED <<routePts, nCircles, ctxCancelled, sPc, sRes, sCloser,
                   seenPlaceIDs, overlap, hPc, hLog, hRes, resultsChan, hCloser,
                   procPending, procDone, errChan, superchargersWithETA, db,
                   fetched, resultVal, resultErr, prevResult, mu, catalog, codecVars, callVars>>

\* A received result with an error: cancel() (line 1617); the return follows.
CollectErr ==
    /\ pc = "collect"
    /\ searchChan # <<>>
    /\ sRes[Head(searchChan)].err # Nil
    /\ observedErrs' = Append(observedErrs, sRes[Head(searchChan)].err)
    /\ pendingErr' = sRes[Head(searchChan)].err
    /\ searchChan' = Tail(searchChan)
    /\ ctxCancelled' = TRUE
    /\ pc' = "searchFailed"
    /\ UNCHANGED <<routePts, nCircles, sPc, sRes, sCloser, seenPlaceIDs,
                   overlap, hPc, hLog, hRes, resultsChan, hCloser, procPending, procDone,
                   errChan, superchargersWithETA, db, fetched, resultVal,
                   resultErr, prevResult,
                   mu, catalog, codecVars, callVars>>

\* return nil, res.err (line 1618); the deferred cancel of line 1586 runs.
ReturnSearchErr ==
    /\ pc = "searchFailed"
    /\ resultVal' = NoResult
    /\ resultErr' = pendingErr
    /\ ctxCancelled' = TRUE
    /\ pc' = "done"
    /\ UNCHANGED <<routePts, nCircles, sPc, sRes, searchChan, sCloser,
                   seenPlaceIDs, pendingErr, observedErrs, overlap, hPc, hLog, hRes,
                   resultsChan, hCloser, procPending, procDone, errChan,
                   superchargersWithETA, db, fetched, prevResult,
                   mu, catalog, codecVars, callVars>>

\* The channel is closed and drained: lines 1626-1642 start one hydration
\* goroutine per key of the map, and the closer of resultsChan.  The places of
\* the search results, all merged into the map by now, are dropped.
StartHydration ==
    /\ pc = "collect"
    /\ searchChan = <<>>
    /\ sCloser = "closed"
    /\ hPc' = [t \in IDs \X Circles |->
                 IF t \in Tasks(seenPlaceIDs) THEN "lookup" ELSE "none"]
    /\ hCloser' = "waiting"
    /\ sRes' = [c \in Circles |-> [places |-> {}, err |-> sRes[c].err]]
    /\ pc' = "process"
    /\ UNCHANGED <<routePts, nCircles, ctxCancelled, sPc, searchChan,
                   sCloser, seenPlaceIDs, pendingErr, observedErrs, overlap, hLog, hRes,
                   resultsChan, procPending, procDone, errChan,
                   superchargersWithETA, db, fetched, resultVal, resultErr,
                   prevResult,
                   mu, catalog, codecVars, callVars>>


(***************************************************************************)
(* GetSuperchargerWithCache, lines 1670-1772, run by the goroutine of      *)
(* lines 1632-1636, which sends the outcome on the buffered resultsChan.   *)
(***************************************************************************)
\* Every lookup error taken for a miss.
IsNotFoundAnyError(err) == err # Nil

\* err != gorm.ErrRecordNotFound is a hard error (line 1679).
IsNotFound(err) == err.kind = "ErrRecordNotFound"

\* GetRestaurantsForSupercharger after a hit: its error is returned as is.
GetRestaurantsForSupercharger(id) == {Nil, Err("dbrestaurants", id)}

\* The restaurant text search around a fetched supercharger (line 1713).
RestaurantSearch(id) == {Nil, Err("restaurants", id)}

\* The failed detail fetch swallowed: no entity and no error.
FetchFailedSwallowed(e) == [supercharger |-> NoRow, err |-> Nil]

\* return nil, nil, err after a failed detail fetch (lines 1688-1690).
FetchFailed(e) == [supercharger |-> NoRow, err |-> e]

\* The write error returned to the caller instead of being logged.
WriteBackResultStrict(row, werr) ==
    IF werr # Nil THEN [supercharger |-> NoRow, err |-> werr]
    ELSE [supercharger |-> row, err |-> Nil]

\* After the write-back the entity is returned with a nil error, whatever the
\* write returned (lines 1705-1710 and 1765-1771).
WriteBackResult(row, werr) == [supercharger |-> row, err |-> Nil]

\* What the cache collaborator answered, for the history of calls.
LookupEvent(g) ==
    IF g.err = Nil THEN "get:hit"
    ELSE IF g.err.kind = "ErrRecordNotFound" THEN "get:miss" ELSE "get:err"

\* Lines 1672-1681: the cache lookup, and the return on a hit or a hard error.
CacheLookup(t) ==
    /\ Running
    /\ hPc[t] = "lookup"
    /\ \E g \in GetByID(db, t[1]) :
         IF g.err = Nil
           THEN /\ \E re \in GetRestaurantsForSupercharger(t[1]) :
                      hRes' = [hRes EXCEPT ![t] = [supercharger |-> g.row, err |-> re]]
                /\ hLog' = [hLog EXCEPT ![t] = Append(@, LookupEvent(g))]
                /\ resultsChan' = Append(resultsChan, t)
                /\ hPc' = [hPc EXCEPT ![t] = "done"]
           ELSE IF ~IsNotFound(g.err)
           THEN /\ hRes' = [hRes EXCEPT ![t] =
                               [supercharger |-> NoRow, err |-> Err("dbquery", t[1])]]
                /\ hLog' = [hLog EXCEPT ![t] = Append(@, LookupEvent(g))]
                /\ resultsChan' = Append(resultsChan, t)
                /\ hPc' = [hPc EXCEPT ![t] = "done"]
           ELSE /\ hLog' = [hLog EXCEPT ![t] = Append(@, LookupEvent(g))]
                /\ hPc' = [hPc EXCEPT ![t] = "fetch"]
                /\ UNCHANGED <<hRes, resultsChan>>
    /\ UNCHANGED <<pc, routePts, nCircles, ctxCancelled, sPc, sRes, searchChan,
                   sCloser, seenPlaceIDs, pendingErr, observedErrs, overlap, hCloser,
                   procPending, procDone, errChan, superchargersWithETA, db,
                   fetched, resultVal, resultErr, prevResult,
                   mu, catalog, codecVars, callVars>>

\* Lines 1687-1763: the detail fetch, the supercharger test on the name, the
\* restaurant search, and the row to cache.
Fetch(t) ==
    /\ Running
    /\ hPc[t] = "fetch"
    /\ \E d \in GetPlaceDetails(t[1]) :
         IF d.err # Nil
           THEN /\ hRes' = [hRes EXCEPT ![t] = FetchFailed(d.err)]
                /\ hLog' = [hLog EXCEPT ![t] = Append(@, "details:err")]
                /\ resultsChan' = Append(resultsChan, t)
                /\ hPc' = [hPc EXCEPT ![t] = "done"]
           ELSE IF ~ContainsSupercharger(d.details.DisplayName)
           THEN /\ hRes' = [hRes EXCEPT ![t] =
                               [supercharger |-> NewSupercharger(d.details, FALSE),
                                err |-> Nil]]
                /\ hLog' = [hLog EXCEPT ![t] = Append(@, "details:ok")]
                /\ hPc' = [hPc EXCEPT ![t] = "write"]
                /\ UNCHANGED resultsChan
           ELSE \E re \in RestaurantSearch(t[1]) :
                  IF re # Nil
                    THEN /\ hRes' = [hRes EXCEPT ![t] = FetchFailed(re)]
                         /\ hLog' = [hLog EXCEPT ![t] =
                                       Append(Append(@, "details:ok"), "restaurants:err")]
                         /\ resultsChan' = Append(resultsChan, t)
                         /\ hPc' = [hPc EXCEPT ![t] = "done"]
                    ELSE /\ hRes' = [hRes EXCEPT ![t] =
                                       [supercharger |-> NewSupercharger(d.details, TRUE),
                                        err |-> Nil]]
                         /\ hLog' = [hLog EXCEPT ![t] =
                                       Append(Append(@, "details:ok"), "restaurants:ok")]
                         /\ hPc' = [hPc EXCEPT ![t] = "write"]
                         /\ UNCHANGED resultsChan
    /\ UNCHANGED <<pc, routePts, nCircles, ctxCancelled, sPc, sRes, searchChan,
                   sCloser, seenPlaceIDs, pendingErr, observedErrs, overlap, hCloser,
                   procPending, procDone, errChan, superchargersWithETA, db,
                   fetched, resultVal, resultErr, prevResult,
                   mu, catalog, codecVars, callVars>>

\* Lines 1705-1710 and 1765-1771: the write-back and the return.
WriteBack(t) ==
    /\ Running
    /\ hPc[t] = "write"
    /\ \E w \in CreateSupercharger(db, hRes[t].supercharger) :
          /\ db' = w.rows
          /\ hRes' = [hRes EXCEPT ![t] = WriteBackResult(hRes[t].supercharger, w.err)]
          /\ hLog' = [hLog EXCEPT ![t] =
                        Append(@, IF w.err = Nil THEN "write:ok" ELSE "write:fail")]
          /\ fetched' = IF w.err = Nil
                          THEN [fetched EXCEPT ![t[1]] = hRes'[t].supercharger]
                          ELSE fetched
    /\ resultsChan' = Append(resultsChan, t)
    /\ hPc' = [hPc EXCEPT ![t] = "done"]
    /\ UNCHANGED <<pc, routePts, nCircles, ctxCancelled, sPc, sRes, searchChan,
                   sCloser, seenPlaceIDs, pendingErr, observedErrs, overlap, hCloser,
                   procPending, procDone, errChan, superchargersWithETA,
                   resultVal, resultErr, prevResult,
                   mu, catalog, codecVars, callVars>>

\* The closer closing resultsChan without wg.Wait().
HydrationCloserNoWait ==
    /\ Running
    /\ hCloser = "waiting"
    /\ hCloser' = "closed"
    /\ UNCHANGED <<pc, routePts, nCircles, ctxCancelled, sPc, sRes, searchChan,
                   sCloser, seenPlaceIDs, pendingErr, observedErrs, overlap, hPc, hLog,
                   hRes, resultsChan, procPending, procDone, errChan,
                   superchargersWithETA, db, fetched, resultVal, resultErr,
                   prevResult,
                   mu, catalog, codecVars, callVars>>

\* The goroutine of lines 1639-1642: wg.Wait(); close(resultsChan).
HydrationCloser ==
    /\ Running
    /\ hCloser = "waiting"
    /\ \A t \in IDs \X Circles : hPc[t] \in {"none", "done"}
    /\ hCloser' = "closed"
    /\ UNCHANGED <<pc, routePts, nCircles, ctxCancelled, sPc, sRes, searchChan,
                   sCloser, seenPlaceIDs, pendingErr, observedErrs, overlap, hPc, hLog,
                   hRes, resultsChan, procPending, procDone, errChan,
                   superchargersWithETA, db, fetched, resultVal, resultErr,
                   prevResult,
                   mu, catalog, codecVars, callVars>>

(***************************************************************************)
(* processSuperchargers, lines 1484-1541.                                  *)
(***************************************************************************)
\* for res := range resultsChan { wg.Add(1); go func(res) ... } (1490-1492)
ProcReceive ==
    /\ pc = "process"
    /\ resultsChan # <<>>
    /\ procPending' = procPending \cup {Head(resultsChan)}
    /\ resultsChan' = Tail(resultsChan)
    /\ UNCHANGED <<pc, routePts, nCircles, ctxCancelled, sPc, sRes, searchChan,
                   sCloser, seenPlaceIDs, pendingErr, observedErrs, overlap, hPc, hLog,
                   hRes, hCloser, procDone, errChan, superchargersWithETA, db,
                   fetched, resultVal, resultErr, prevResult,
                   mu, catalog, codecVars, callVars>>

\* select { case errChan <- res.err: default: } on a channel of capacity 1.
TrySend(ch, e) == IF ch = <<>> THEN <<e>> ELSE ch

\* distanceToPolylineWithIndex dereferences the index, which
\* buildPolylineIndex leaves nil for a route of fewer than two points.
IndexIsNil == routePts < 2

\* A mutex that lets every goroutine in.
MutexFreeAlways(holders) == TRUE

\* mu.Lock() (line 1527) returns only when no goroutine holds the mutex.
MutexFree(holders) == holders = {}

\* The body of the goroutine, lines 1493-1527: a failed result or a place
\* that is no supercharger ends it; otherwise it computes the entry and
\* takes the mutex.
ProcessOne(t) ==
    /\ Running
    /\ t \in procPending
    /\ t \notin mu
    /\ IF hRes[t].err # Nil
         THEN /\ errChan' = TrySend(errChan, hRes[t].err)
              /\ procPending' = procPending \ {t}
              /\ procDone' = procDone \cup {t}
              /\ UNCHANGED mu
         ELSE IF ~hRes[t].supercharger.IsSupercharger
         THEN /\ procPending' = procPending \ {t}
              /\ procDone' = procDone \cup {t}
              /\ UNCHANGED <<errChan, mu>>
         ELSE /\ ~IndexIsNil
              /\ MutexFree(mu)
              /\ mu' = mu \cup {t}
              /\ UNCHANGED <<errChan, procPending, procDone>>
    /\ UNCHANGED <<pc, routePts, nCircles, ctxCancelled, sPc, sRes, searchChan,
                   sCloser, seenPlaceIDs, pendingErr, observedErrs, overlap, hPc, hLog,
                   hRes, resultsChan, hCloser, superchargersWithETA, db, fetched,
                   resultVal, resultErr, prevResult,
                   catalog, codecVars, callVars>>

\* Lines 1528-1529: the append under the mutex, mu.Unlock(), and the return.
ProcessAppend(t) ==
    /\ Running
    /\ t \in mu
    /\ superchargersWithETA' =
          superchargersWithETA (+) SetToBag({hRes[t].supercharger})
    /\ mu' = mu \ {t}
    /\ procPending' = procPending \ {t}
    /\ procDone' = procDone \cup {t}
    /\ UNCHANGED <<pc, routePts, nCircles, ctxCancelled, sPc, sRes, searchChan,
                   sCloser, seenPlaceIDs, pendingErr, observedErrs, overlap, hPc, hLog,
                   hRes, resultsChan, hCloser, errChan, db, fetched, resultVal,
                   resultErr, prevResult,
                   catalog, codecVars, callVars>>

\* The body of the goroutine when the index is nil: the nil dereference at
\* line 1318 panics and the process dies.
ProcessPanic(t) ==
    /\ Running
    /\ t \in procPending
    /\ hRes[t].err = Nil
    /\ hRes[t].supercharger.IsSupercharger
    /\ IndexIsNil
    /\ pc' = "panicked"
    /\ UNCHANGED <<routePts, nCircles, ctxCancelled, sPc, sRes, searchChan,
                   sCloser, seenPlaceIDs, pendingErr, observedErrs, overlap, hPc, hLog,
                   hRes, resultsChan, hCloser, procPending, procDone, errChan,
                   superchargersWithETA, db, fetched, resultVal, resultErr,
                   prevResult,
                   mu, catalog, codecVars, callVars>>

\* processSuperchargers returning the list without looking at errChan.
ProcessOutcomeIgnoreErr(errs, list) == [list |-> list, ok |-> TRUE, err |-> Nil]

\* The value processSuperchargers returns after wg.Wait() (lines 1533-1540).
ProcessOutcome(errs, list) ==
    IF errs # <<>>
      THEN [list |-> EmptyBag, ok |-> FALSE, err |-> Head(errs)]
      ELSE [list |-> list, ok |-> TRUE, err |-> Nil]

\* The range loop ends on the closed, drained channel; wg.Wait(); the select
\* on errChan; and the return of GetSuperchargersOnRoute (lines 1648-1658).
ProcessReturn ==
    /\ pc = "process"
    /\ resultsChan = <<>>
    /\ hCloser = "closed"
    /\ procPending = {}
    /\ LET out == ProcessOutcome(errChan, superchargersWithETA)
       IN /\ resultErr' = out.err
          /\ resultVal' = IF out.err # Nil THEN NoResult
                          ELSE [ok |-> TRUE, Superchargers |-> out.list,
                                SearchCircles |-> nCircles]
    /\ ctxCancelled' = TRUE
    /\ pc' = "done"
    /\ UNCHANGED <<routePts, nCircles, sPc, sRes, searchChan, sCloser,
                   seenPlaceIDs, pendingErr, observedErrs, overlap, hPc, hLog, hRes,
                   resultsChan, hCloser, procPending, procDone, errChan,
                   superchargersWithETA, db, fetched, prevResult,
                   mu, catalog, codecVars, callVars>>


(***************************************************************************)
(* The next call of GetSuperchargersOnRoute against the same database      *)
(* (TestGetSuperchargersOnRoute runs the route twice).  It starts once the *)
(* goroutines the previous call left behind have finished.                 *)
(***************************************************************************)
Quiescent ==
    /\ \A c \in Circles : sPc[c] # "running"
    /\ sCloser # "waiting"
    /\ \A t \in IDs \X Circles : hPc[t] \in {"none", "done"}
    /\ hCloser # "waiting"

Restart ==
    /\ pc = "done"
    /\ Quiescent
    /\ prevResult' = IF resultErr = Nil
                      THEN [ok |-> TRUE, Superchargers |-> resultVal.Superchargers]
                      ELSE prevResult
    /\ pc' = "start"
    /\ routePts' = 0
    /\ nCircles' = 0
    /\ ctxCancelled' = FALSE
    /\ sPc' = [c \in Circles |-> "idle"]
    /\ sRes' = [c \in Circles |-> NoSearchResult]
    /\ searchChan' = <<>>
    /\ sCloser' = "idle"
    /\ seenPlaceIDs' = [id \in IDs |-> 0]
    /\ pendingErr' = Nil
    /\ observedErrs' = <<>>
    /\ overlap' = {}
    /\ hPc' = [t \in IDs \X Circles |-> "none"]
    /\ hLog' = [t \in IDs \X Circles |-> <<>>]
    /\ hRes' = [t \in IDs \X Circles |-> NoHydration]
    /\ resultsChan' = <<>>
    /\ hCloser' = "idle"
    /\ procPending' = {}
    /\ procDone' = {}
    /\ errChan' = <<>>
    /\ superchargersWithETA' = EmptyBag
    /\ mu' = {}
    /\ resultVal' = NoResult
    /\ resultErr' = Nil
    /\ UNCHANGED <<db, fetched,
                   catalog, codecVars, callVars>>

NextPipe ==
    \/ BeginFail
    \/ BeginOK
    \/ \E c \in Circles : SearchTask(c)
    \/ SearchCloser
    \/ CollectOK
    \/ CollectErr
    \/ ReturnSearchErr
    \/ StartHydration
    \/ \E t \in IDs \X Circles : CacheLookup(t)
    \/ \E t \in IDs \X Circles : Fetch(t)
    \/ \E t \in IDs \X Circles : WriteBack(t)
    \/ HydrationCloser
    \/ ProcReceive
    \/ \E t \in IDs \X Circles : ProcessOne(t)
    \/ \E t \in IDs \X Circles : ProcessAppend(t)
    \/ \E t \in IDs \X Circles : ProcessPanic(t)
    \/ ProcessReturn
    \/ Restart

(***************************************************************************)
(* The polyline codec.  A string is a sequence of bytes; a coordinate is   *)
(* a whole number of millionths of a degree; the codec computes with whole *)
(* numbers of 1e-5 degrees (int(math.Round(x*1e5)) on encoding,            *)
(* float64(n)/1e5 on decoding).                                            *)
(***************************************************************************)
NoDecode == [points |-> <<>>, err |-> Nil]

\* A coordinate is a whole number of millionths of a degree, so that a
\* multiple of 1e-5 degrees is a multiple of ten and the rounding of
\* encodePolyline has something to round. The values give one-chunk,
\* two-chunk and long deltas, and two coordinates off the 1e-5 grid.
CoordVals == {-120200000, -170, -15, 0, 160, 38500000, 38500004}

Points == [Lat : CoordVals, Lng : CoordVals]

Paths == UNION {[1..n -> Points] : n \in 0..MaxPathLen}

\* Bytes of the encoding alphabet ('?'..'~'): chunks 0, 1, 31 without and
\* 0, 1, 31 with the continuation bit.
Alphabet == {63, 64, 94, 95, 96, 126}

RawStrings == UNION {[1..n -> Alphabet] : n \in 0..MaxEncLen}

RECURSIVE Pow2(_)
Pow2(n) == IF n = 0 THEN 1 ELSE 2 * Pow2(n - 1)

\* The loop of encodeSingleValue (cmd/api/main.go:1076-1080).
RECURSIVE EncodeChunks(_)
EncodeChunks(inverted) ==
    IF inverted >= 32
      THEN <<(32 + (inverted % 32)) + 63>> \o EncodeChunks(inverted \div 32)
      ELSE <<inverted + 63>>

\* The loop with its bound off by one.
RECURSIVE EncodeChunksOffByOne(_)
EncodeChunksOffByOne(inverted) ==
    IF inverted > 32
      THEN <<(32 + (inverted % 32)) + 63>> \o EncodeChunksOffByOne(inverted \div 32)
      ELSE <<inverted + 63>>

encodeSingleValueOffByOne(value) ==
    EncodeChunksOffByOne(IF value < 0 THEN -(2 * value) - 1 ELSE 2 * value)

\* encodeSingleValue: ^(value << 1) for a negative value, value << 1 otherwise.
encodeSingleValue(value) ==
    EncodeChunks(IF value < 0 THEN -(2 * value) - 1 ELSE 2 * value)

\* int(math.Round(x * 1e5)): the nearest multiple of 1e-5 degrees, halves
\* away from zero.
RoundE5(x) ==
    IF x >= 0 THEN (x + 5) \div 10 ELSE -((5 - x) \div 10)

\* float64(v) / 1e5: the coordinate of an integer count of 1e-5 degrees.
FromE5(v) == v * 10

RECURSIVE EncodeFrom(_, _, _, _)
EncodeFrom(path, i, lastLat, lastLng) ==
    IF i > Len(path) THEN <<>>
    ELSE LET lat == RoundE5(path[i].Lat)
             lng == RoundE5(path[i].Lng)
         IN encodeSingleValue(lat - lastLat)
            \o encodeSingleValue(lng - lastLng)
            \o EncodeFrom(path, i + 1, lat, lng)

encodePolyline(path) == EncodeFrom(path, 1, 0, 0)

\* (result >> 1) ^ -(result & 1), and the if/else of DecodePolyline.
UnZigZag(result) ==
    IF result % 2 = 1 THEN -(result \div 2) - 1 ELSE result \div 2

\* The inner loop of decodePolyline (cmd/api/main.go:1026-1037): it stops on
\* a chunk byte b < 0x20 and fails at the end of the string.
RECURSIVE ReadValueApi(_, _, _, _)
ReadValueApi(encoded, index, result, shift) ==
    IF index > Len(encoded) THEN [ok |-> FALSE, result |-> 0, index |-> index]
    ELSE LET b == encoded[index] - 63
             r == result + (b % 32) * Pow2(shift)
         IN IF b < 32 THEN [ok |-> TRUE, result |-> r, index |-> index + 1]
            ELSE ReadValueApi(encoded, index + 1, r, shift + 5)

\* The inner loop of DecodePolyline (part_005:283-294): it stops on b&0x20 == 0.
RECURSIVE ReadValueMaps(_, _, _, _)
ReadValueMaps(encoded, index, result, shift) ==
    IF index > Len(encoded) THEN [ok |-> FALSE, result |-> 0, index |-> index]
    ELSE LET b == encoded[index] - 63
             r == result + (b % 32) * Pow2(shift)
         IN IF (b \div 32) % 2 = 0 THEN [ok |-> TRUE, result |-> r, index |-> index + 1]
            ELSE ReadValueMaps(encoded, index + 1, r, shift + 5)

MalformedApi == Err("polyline decoding error: unexpected end of string", 0)

MalformedMaps == Err("polyline string is malformed", 0)

\* decodePolyline of cmd/api/main.go: on a truncated value it returns the
\* points decoded so far together with the error.
RECURSIVE DecodeApiFrom(_, _, _, _, _)
DecodeApiFrom(encoded, index, lat, lng, points) ==
    IF index > Len(encoded) THEN [points |-> points, err |-> Nil]
    ELSE LET a == ReadValueApi(encoded, index, 0, 0)
         IN IF ~a.ok THEN [points |-> points, err |-> MalformedApi]
            ELSE LET o == ReadValueApi(encoded, a.index, 0, 0)
                 IN IF ~o.ok THEN [points |-> points, err |-> MalformedApi]
                    ELSE LET nlat == lat + UnZigZag(a.result)
                             nlng == lng + UnZigZag(o.result)
                         IN DecodeApiFrom(encoded, o.index, nlat, nlng,
                                Append(points, [Lat |-> FromE5(nlat), Lng |-> FromE5(nlng)]))

decodePolyline(encoded) == DecodeApiFrom(encoded, 1, 0, 0, <<>>)

\* DecodePolyline of pkg/maps: on a truncated value it returns nil and the error.
RECURSIVE DecodeMapsFrom(_, _, _, _, _)
DecodeMapsFrom(encoded, index, lat, lng, points) ==
    IF index > Len(encoded) THEN [points |-> points, err |-> Nil]
    ELSE LET a == ReadValueMaps(encoded, index, 0, 0)
         IN IF ~a.ok THEN [points |-> <<>>, err |-> MalformedMaps]
            ELSE LET o == ReadValueMaps(encoded, a.index, 0, 0)
                 IN IF ~o.ok THEN [points |-> <<>>, err |-> MalformedMaps]
                    ELSE LET nlat == lat + UnZigZag(a.result)
                             nlng == lng + UnZigZag(o.result)
                         IN DecodeMapsFrom(encoded, o.index, nlat, nlng,
                                Append(points, [Lat |-> FromE5(nlat), Lng |-> FromE5(nlng)]))

DecodePolyline(encoded) == DecodeMapsFrom(encoded, 1, 0, 0, <<>>)

CodecIdle ==
    /\ cpc = "idle"
    /\ cPath = <<>>
    /\ cEnc = <<>>
    /\ cOut = NoDecode
    /\ cOut2 = NoDecode

(***************************************************************************)
(* Calls of the pure geometry and profile functions.  A call holds its     *)
(* arguments in args and, once the function has returned, its result in    *)
(* ret.                                                                    *)
(***************************************************************************)
NoRet == [err |-> "not returned"]

CallIdle ==
    /\ fn = "idle"
    /\ args = <<>>
    /\ ret = NoRet

\* The function named f is called on args and returns r.
Return(f, r) ==
    /\ fn = f
    /\ ret = NoRet
    /\ ret' = r
    /\ UNCHANGED <<fn, args>>
    /\ UNCHANGED <<pipeVars, codecVars>>

(***************************************************************************)
(* PolylineToCircles and interpolatePoints (pkg/maps/route.go).  A point   *)
(* is a Center in millionths of a degree, as DecodePolyline returns it.    *)
(* haversineDistance is taken on the plane, nine millionths of a degree to *)
(* the metre (111,320 m per degree), and compared by its square.           *)
(***************************************************************************)
\* A length in metres, in millionths of a degree.
Metres(m) == 9 * m

\* The square of haversineDistance(p1, p2), in millionths of a degree.
haversineDistanceSq(p1, p2) ==
    (p1.Lat - p2.Lat) * (p1.Lat - p2.Lat) + (p1.Lng - p2.Lng) * (p1.Lng - p2.Lng)

\* dist > metres
Farther(p1, p2, m) == haversineDistanceSq(p1, p2) > Metres(m) * Metres(m)

\* int(math.Ceil(dist / intervalMeters)) for dist > intervalMeters
RECURSIVE CeilSegments(_, _, _)
CeilSegments(distSq, intervalMeters, n) ==
    IF n * n * Metres(intervalMeters) * Metres(intervalMeters) >= distSq
      THEN n
      ELSE CeilSegments(distSq, intervalMeters, n + 1)

\* The inner loop of interpolatePoints (lines 215-220).
RECURSIVE InterpolateSegment(_, _, _, _)
InterpolateSegment(p1, p2, j, numSegments) ==
    IF j < numSegments
      THEN <<[Lat |-> p1.Lat + (j * (p2.Lat - p1.Lat)) \div numSegments,
              Lng |-> p1.Lng + (j * (p2.Lng - p1.Lng)) \div numSegments]>>
           \o InterpolateSegment(p1, p2, j + 1, numSegments)
      ELSE <<>>

\* The outer loop of interpolatePoints (lines 206-222).
RECURSIVE InterpolateFrom(_, _, _)
InterpolateFrom(points, i, intervalMeters) ==
    IF i >= Len(points) THEN <<>>
    ELSE LET p1 == points[i]
             p2 == points[i + 1]
         IN (IF ~Farther(p1, p2, intervalMeters)
               THEN <<p2>>
               ELSE InterpolateSegment(p1, p2, 1,
                       CeilSegments(haversineDistanceSq(p1, p2), intervalMeters, 1))
                    \o <<p2>>)
            \o InterpolateFrom(points, i + 1, intervalMeters)

interpolatePoints(points, intervalMeters) ==
    IF Len(points) = 0 THEN <<>>
    ELSE <<points[1]>> \o InterpolateFrom(points, 1, intervalMeters)

\* The test of line 258 with the spacing of a packing: distance > 2 * radius.
NeedsCircleTwice(lastCircleCenter, currentPoint, radius) ==
    Farther(lastCircleCenter, currentPoint, 2 * radius)

\* The test of line 258: distance > radius.
NeedsCircle(lastCircleCenter, currentPoint, radius) ==
    Farther(lastCircleCenter, currentPoint, radius)

\* The greedy loop of lines 251-263; it returns the circles and the centre
\* of the last one placed.
RECURSIVE CoverFrom(_, _, _, _, _)
CoverFrom(points, i, radius, circles, lastCircleCenter) ==
    IF i > Len(points)
      THEN [circles |-> circles, lastCircleCenter |-> lastCircleCenter]
    ELSE IF NeedsCircle(lastCircleCenter, points[i], radius)
      THEN CoverFrom(points, i + 1, radius,
                     Append(circles, [Center |-> points[i], Radius |-> radius]),
                     points[i])
      ELSE CoverFrom(points, i + 1, radius, circles, lastCircleCenter)

\* The guard of lines 229-231 with the test radius < 0.
CircleRadiusInvalidStrict(radius) == radius < 0

\* The guard of lines 229-231.
CircleRadiusInvalid(radius) == radius <= 0

PolylineToCircles(encodedPolyline, radius) ==
    IF CircleRadiusInvalid(radius)
      THEN [circles |-> <<>>, err |-> "radius must be a positive number"]
    ELSE LET decoded == DecodePolyline(encodedPolyline)
         IN IF decoded.err # Nil
              THEN [circles |-> <<>>, err |-> "failed to decode polyline"]
            ELSE LET points == interpolatePoints(decoded.points, 100)
                 IN IF Len(points) = 0
                      THEN [circles |-> <<>>, err |-> "nil"]
                    ELSE LET g == CoverFrom(points, 2, radius,
                                     <<[Center |-> points[1], Radius |-> radius]>>,
                                     points[1])
                         IN [circles |->
                               IF g.lastCircleCenter # points[Len(points)]
                                 THEN Append(g.circles,
                                        [Center |-> points[Len(points)],
                                         Radius |-> radius])
                                 ELSE g.circles,
                             err |-> "nil"]

\* Points of the routes, in millionths of a degree: 100 m, 300 m and 200 m
\* apart, and two points about one metre apart.
RoutePoints ==
    {[Lat |-> 0, Lng |-> 0], [Lat |-> 900, Lng |-> 0], [Lat |-> 2700, Lng |-> 0],
     [Lat |-> 2700, Lng |-> 1800], [Lat |-> 0, Lng |-> 10]}

RoutePaths == UNION {[1..n -> RoutePoints] : n \in 0..MaxRoutePts}

\* The encoded routes, and a string that ends inside a value.
RouteStrings == {encodePolyline(p) : p \in RoutePaths} \cup {<<63, 95>>}

CircleRadii == {-5, 0, 60, 150}

InitCircles ==
    /\ InitPipe
    /\ CodecIdle
    /\ fn = "PolylineToCircles"
    /\ args \in [encodedPolyline : RouteStrings, radius : CircleRadii]
    /\ ret = NoRet

CallPolylineToCircles ==
    Return("PolylineToCircles", PolylineToCircles(args.encodedPolyline, args.radius))

NextCircles == CallPolylineToCircles

(***************************************************************************)
(* The cumulative profile (CumPoint list) built from the steps of a leg:   *)
(* GetSuperchargersOnRoute (part_001:808-873) and routeHandler             *)
(* (cmd/api/main.go:386-446).  Distances are whole metres; CumDistKm is    *)
(* held in thousandths of its unit.                                        *)
(***************************************************************************)
\* The duration strings of the provider: seconds with the suffix, a plain
\* number, a negative one, and text that is no number.
StaticDurationStrings == {"0s", "30s", "45", "-30s", "soon"}

\* The total duration of a route is never negative.
RouteDurationStrings == {"0s", "30s", "100s", "soon"}

\* parseDurationString: "2420s" or "2420" to seconds, anything else to 0.
parseDurationString(durationStr) ==
    CASE durationStr = "0s" -> 0
      [] durationStr = "30s" -> 30
      [] durationStr = "100s" -> 100
      [] durationStr = "45" -> 45
      [] durationStr = "-30s" -> -30
      [] OTHER -> 0

\* The largest r with r * r <= n, by bisection between lo and hi.
RECURSIVE ISqrtIn(_, _, _)
ISqrtIn(n, lo, hi) ==
    IF lo >= hi THEN lo
    ELSE LET mid == (lo + hi + 1) \div 2
         IN IF mid * mid <= n THEN ISqrtIn(n, mid, hi) ELSE ISqrtIn(n, lo, mid - 1)

\* haversineDistance in whole metres.
haversineMetres(p1, p2) == ISqrtIn(haversineDistanceSq(p1, p2), 0, 40000) \div 9

\* The loop of lines 836-838: the length of the step.
RECURSIVE StepLength(_, _)
StepLength(stepPoints, i) ==
    IF i > Len(stepPoints) THEN 0
    ELSE haversineMetres(stepPoints[i - 1], stepPoints[i]) + StepLength(stepPoints, i + 1)

\* int(float64(a) * float64(b) / float64(c)), truncated towards zero.
TruncMulDiv(a, b, c) ==
    IF a * b >= 0 THEN (a * b) \div c ELSE -((-(a * b)) \div c)

\* The first loop (lines 818-821): the sum of the static durations.
RECURSIVE SumStaticDur(_, _)
SumStaticDur(steps, i) ==
    IF i > Len(steps) THEN 0
    ELSE parseDurationString(steps[i].StaticDuration) + SumStaticDur(steps, i + 1)

\* int(float64(staticStepDur) * trafficMultiplier) (lines 824-827, 842).
TrafficStepDur(staticStepDur, totalTrafficDur, sumStaticDur) ==
    IF sumStaticDur > 0
      THEN TruncMulDiv(staticStepDur, totalTrafficDur, sumStaticDur)
      ELSE staticStepDur

\* The duration of a point counted from the start of its step only.
PointCumDurNoBase(cumDur, trafficStepDur, stepCumDist, totalStepDist) ==
    IF totalStepDist > 0
      THEN TruncMulDiv(trafficStepDur, stepCumDist, totalStepDist)
      ELSE 0

\* pointCumDur := cumDur + int(float64(trafficStepDur)*fraction), with
\* fraction 0.0 for a step of no length (lines 849-853).
PointCumDur(cumDur, trafficStepDur, stepCumDist, totalStepDist) ==
    cumDur + (IF totalStepDist > 0
                THEN TruncMulDiv(trafficStepDur, stepCumDist, totalStepDist)
                ELSE 0)

\* The loop of lines 845-869 over the points of one step.
RECURSIVE StepPoints(_, _, _, _, _, _, _, _)
StepPoints(stepPoints, i, stepCumDist, totalStepDist, trafficStepDur, cumDist, cumDur, scale) ==
    IF i > Len(stepPoints) THEN <<>>
    ELSE IF i = 1
      THEN <<[Lat |-> stepPoints[1].Lat, Lng |-> stepPoints[1].Lng,
              CumDistKm |-> cumDist * scale, CumDurSeconds |-> cumDur]>>
           \o StepPoints(stepPoints, 2, 0, totalStepDist, trafficStepDur,
                         cumDist, cumDur, scale)
      ELSE LET d == stepCumDist + haversineMetres(stepPoints[i - 1], stepPoints[i])
               pointCumDur == PointCumDur(cumDur, trafficStepDur, d, totalStepDist)
           IN <<[Lat |-> stepPoints[i].Lat, Lng |-> stepPoints[i].Lng,
                 CumDistKm |-> (cumDist + d) * scale, CumDurSeconds |-> pointCumDur]>>
              \o StepPoints(stepPoints, i + 1, d, totalStepDist, trafficStepDur,
                            cumDist, cumDur, scale)

\* err != nil || len(stepPoints) == 0 (lines 832-834): the step is skipped.
StepSkipped(decoded) == decoded.err # Nil \/ Len(decoded.points) = 0

\* The second loop (lines 830-872) from step i on.  decode is "maps" for
\* DecodePolyline and "api" for decodePolyline; scale is 1 where CumDistKm
\* is the distance in metres divided by 1000.0 and 1000 where it is the
\* distance in metres itself.
RECURSIVE ProfileFrom(_, _, _, _, _, _, _, _)
ProfileFrom(steps, i, cumDist, cumDur, totalTrafficDur, sumStaticDur, decode, scale) ==
    IF i > Len(steps) THEN <<>>
    ELSE LET decoded == IF decode = "maps"
                          THEN DecodePolyline(steps[i].EncodedPolyline)
                          ELSE decodePolyline(steps[i].EncodedPolyline)
         IN IF StepSkipped(decoded)
              THEN ProfileFrom(steps, i + 1, cumDist, cumDur, totalTrafficDur,
                               sumStaticDur, decode, scale)
            ELSE LET stepPoints == decoded.points
                     totalStepDist == StepLength(stepPoints, 2)
                     trafficStepDur ==
                         TrafficStepDur(parseDurationString(steps[i].StaticDuration),
                                        totalTrafficDur, sumStaticDur)
                 IN StepPoints(stepPoints, 1, 0, totalStepDist, trafficStepDur,
                               cumDist, cumDur, scale)
                    \o ProfileFrom(steps, i + 1, cumDist + totalStepDist,
                                   cumDur + trafficStepDur, totalTrafficDur,
                                   sumStaticDur, decode, scale)

\* The profile of GetSuperchargersOnRoute (part_001:808-873).
ProfileMaps(steps, duration) ==
    [cumulativePoints |->
        ProfileFrom(steps, 1, 0, 0, parseDurationString(duration),
                    SumStaticDur(steps, 1), "maps", 1),
     err |-> "nil"]

\* The profile of routeHandler (cmd/api/main.go:386-446).
ProfileApi(steps, duration) ==
    [cumulativePoints |->
        ProfileFrom(steps, 1, 0, 0, parseDurationString(duration),
                    SumStaticDur(steps, 1), "api", 1000),
     err |-> "nil"]

\* The polylines of the steps: empty, one point, a point twice, 100 m,
\* three points over 300 m and 200 m, a string that ends inside a value, and
\* one that ends inside its second point.
StepStrings ==
    {encodePolyline(p) :
        p \in {<<>>,
               <<[Lat |-> 0, Lng |-> 0]>>,
               <<[Lat |-> 900, Lng |-> 0], [Lat |-> 900, Lng |-> 0]>>,
               <<[Lat |-> 0, Lng |-> 0], [Lat |-> 900, Lng |-> 0]>>,
               <<[Lat |-> 900, Lng |-> 0], [Lat |-> 3600, Lng |-> 0],
                 [Lat |-> 3600, Lng |-> 1800]>>}}
    \cup {<<63, 95>>, <<63, 63, 64>>}

Steps == [EncodedPolyline : StepStrings, StaticDuration : StaticDurationStrings]

StepLists == UNION {[1..n -> Steps] : n \in 0..MaxSteps}

InitProfile ==
    /\ InitPipe
    /\ CodecIdle
    /\ fn \in {"GetSuperchargersOnRoute.profile", "routeHandler.profile"}
    /\ args \in [Steps : StepLists, Duration : RouteDurationStrings]
    /\ ret = NoRet

CallProfileMaps ==
    Return("GetSuperchargersOnRoute.profile", ProfileMaps(args.Steps, args.Duration))

CallProfileApi ==
    Return("routeHandler.profile", ProfileApi(args.Steps, args.Duration))

NextProfile == CallProfileMaps \/ CallProfileApi

(***************************************************************************)
(* calculateETA (part_001:1441-1474).  Distances are whole metres,         *)
(* durations and times whole seconds, CumDistKm thousandths of a           *)
(* kilometre; the float64 products are taken exactly.                      *)
(***************************************************************************)
\* The loop stopping at the first point strictly beyond the target.
RECURSIVE FirstStrictlyBeyond(_, _, _)
FirstStrictlyBeyond(cumulativePoints, i, distAlongRoute) ==
    IF i > Len(cumulativePoints) THEN [found |-> FALSE, dur |-> 0]
    ELSE IF cumulativePoints[i].CumDistKm > distAlongRoute
      THEN [found |-> TRUE, dur |-> cumulativePoints[i].CumDurSeconds]
      ELSE FirstStrictlyBeyond(cumulativePoints, i + 1, distAlongRoute)

\* The loop of lines 1446-1452 from point i on: the duration of the first
\* point with cp.CumDistKm >= distAlongRoute/1000.0, or none.
RECURSIVE FirstAtOrBeyond(_, _, _)
FirstAtOrBeyond(cumulativePoints, i, distAlongRoute) ==
    IF i > Len(cumulativePoints) THEN [found |-> FALSE, dur |-> 0]
    ELSE IF cumulativePoints[i].CumDistKm >= distAlongRoute
      THEN [found |-> TRUE, dur |-> cumulativePoints[i].CumDurSeconds]
      ELSE FirstAtOrBeyond(cumulativePoints, i + 1, distAlongRoute)

\* The fallback with the total distance taken in kilometres.
LinearFallbackKm(distAlongRoute, totalRouteDist, totalRouteDur) ==
    IF totalRouteDist > 0
      THEN TruncMulDiv(totalRouteDur, distAlongRoute, totalRouteDist * 1000)
      ELSE 0

\* Lines 1458-1461: int(totalRouteDur.Seconds() * (distAlongRoute / totalRouteDist)).
LinearFallback(distAlongRoute, totalRouteDist, totalRouteDur) ==
    IF totalRouteDist > 0
      THEN TruncMulDiv(totalRouteDur, distAlongRoute, totalRouteDist)
      ELSE 0

\* Lines 1469-1471: the whole seconds of (distFromRoute / 1000.0) / 50.0 * 3600.
ExtraTimeSeconds(distFromRoute) == TruncMulDiv(distFromRoute, 3600, 50 * 1000)

SelectedCumDur(cumulativePoints, distAlongRoute, totalRouteDist, totalRouteDur) ==
    IF Len(cumulativePoints) > 0
      THEN LET f == FirstAtOrBeyond(cumulativePoints, 1, distAlongRoute)
           IN IF f.found THEN f.dur
              ELSE cumulativePoints[Len(cumulativePoints)].CumDurSeconds
      ELSE LinearFallback(distAlongRoute, totalRouteDist, totalRouteDur)

\* The arrival time, in seconds, for the clock reading now.
calculateETA(cumulativePoints, distAlongRoute, distFromRoute, totalRouteDist, totalRouteDur, now) ==
    now + SelectedCumDur(cumulativePoints, distAlongRoute, totalRouteDist, totalRouteDur)
        + ExtraTimeSeconds(distFromRoute)

\* routeHandler (cmd/api/main.go:644-657 and 715-721): the same lookup,
\* without the linear fallback, and the same detour at 50 km/h.
routeHandlerETA(cumulativePoints, distAlongRoute, distFromRoute, now) ==
    LET f == FirstAtOrBeyond(cumulativePoints, 1, distAlongRoute)
        selectedCumDur ==
            IF f.found THEN f.dur
            ELSE IF Len(cumulativePoints) > 0
              THEN cumulativePoints[Len(cumulativePoints)].CumDurSeconds
              ELSE 0
    IN now + selectedCumDur + TruncMulDiv(distFromRoute, 3600, 50 * 1000)

\* Profiles given to calculateETA: none, one point, and the profile of a
\* three-kilometre route with a repeated distance.
ETAProfiles ==
    {<<>>,
     <<[Lat |-> 0, Lng |-> 0, CumDistKm |-> 0, CumDurSeconds |-> 0]>>,
     <<[Lat |-> 0, Lng |-> 0, CumDistKm |-> 0, CumDurSeconds |-> 0],
       [Lat |-> 9000, Lng |-> 0, CumDistKm |-> 1000, CumDurSeconds |-> 60],
       [Lat |-> 9000, Lng |-> 0, CumDistKm |-> 1000, CumDurSeconds |-> 90],
       [Lat |-> 27000, Lng |-> 0, CumDistKm |-> 3000, CumDurSeconds |-> 200]>>}

ETAArgs ==
    [cumulativePoints : ETAProfiles,
     distAlongRoute : {0, 205, 1000, 1500, 50000, 100000, 120000},
     distFromRoute : {0, 125, 1000, 5000},
     totalRouteDist : {0, 3000, 100000},
     totalRouteDur : {0, 7200},
     now : {0, 1000}]

InitETA ==
    /\ InitPipe
    /\ CodecIdle
    /\ fn \in {"calculateETA", "routeHandler.eta"}
    /\ args \in ETAArgs
    /\ ret = NoRet

CallCalculateETA ==
    Return("calculateETA",
           [arrivalTime |->
               calculateETA(args.cumulativePoints, args.distAlongRoute,
                            args.distFromRoute, args.totalRouteDist,
                            args.totalRouteDur, args.now)])

CallRouteHandlerETA ==
    Return("routeHandler.eta",
           [arrivalTime |->
               routeHandlerETA(args.cumulativePoints, args.distAlongRoute,
                               args.distFromRoute, args.now)])

NextETA == CallCalculateETA \/ CallRouteHandlerETA

(***************************************************************************)
(* buildPolylineIndex and distanceToPolylineWithIndex (part_001:1202-1437).*)
(* Coordinates are whole multiples of 0.005 degrees, so that the grid size *)
(* of 0.01 degrees is 2; distances are in the same unit on the plane and   *)
(* are compared by their squares.  The polylines drawn have segments along *)
(* a parallel or a meridian, on which every projection is a whole number.  *)
(***************************************************************************)
\* GetSuperchargersOnRoute, line 1567: buildPolylineIndex(routePoints, 0.01)
GridSize == 2

\* math.MaxFloat64, the distance before any segment was looked at.
MaxFloat64 == -1

\* The zero value of Center.
ZeroCenter == [Lat |-> 0, Lng |-> 0]

\* int(a / b) for b > 0: Go truncates towards zero.
TruncDiv(a, b) == IF a >= 0 THEN a \div b ELSE -((-a) \div b)

\* int(math.Ceil(a / b)) for b > 0
CeilDiv(a, b) == -((-a) \div b)

Min2(a, b) == IF a < b THEN a ELSE b

Max2(a, b) == IF a > b THEN a ELSE b

\* Lines 1207-1223: the bounds of the polyline, from point i on.
RECURSIVE MinLatFrom(_, _)
MinLatFrom(polyline, i) ==
    IF i = Len(polyline) THEN polyline[i].Lat
    ELSE Min2(polyline[i].Lat, MinLatFrom(polyline, i + 1))

RECURSIVE MaxLatFrom(_, _)
MaxLatFrom(polyline, i) ==
    IF i = Len(polyline) THEN polyline[i].Lat
    ELSE Max2(polyline[i].Lat, MaxLatFrom(polyline, i + 1))

RECURSIVE MinLngFrom(_, _)
MinLngFrom(polyline, i) ==
    IF i = Len(polyline) THEN polyline[i].Lng
    ELSE Min2(polyline[i].Lng, MinLngFrom(polyline, i + 1))

RECURSIVE MaxLngFrom(_, _)
MaxLngFrom(polyline, i) ==
    IF i = Len(polyline) THEN polyline[i].Lng
    ELSE Max2(polyline[i].Lng, MaxLngFrom(polyline, i + 1))

\* haversineDistance(p1, p2) of the ends of a segment.
SegmentLength(p1, p2) == ISqrtIn(haversineDistanceSq(p1, p2), 0, 40000)

\* cumulativeDist before segment i (lines 1252, 1297; 1394, 1420).
RECURSIVE CumulativeDist(_, _)
CumulativeDist(polyline, i) ==
    IF i <= 1 THEN 0
    ELSE CumulativeDist(polyline, i - 1) + SegmentLength(polyline[i - 1], polyline[i])

\* Lines 1265-1291: whether segment i is appended to grid[y][x].
SegmentInCell(polyline, i, minLat, minLng, gridWidth, gridHeight, gridSize, y, x) ==
    LET p1 == polyline[i]
        p2 == polyline[i + 1]
        startY == Max2(TruncDiv(Min2(p1.Lat, p2.Lat) - minLat, gridSize), 0)
        endY == Min2(TruncDiv(Max2(p1.Lat, p2.Lat) - minLat, gridSize), gridHeight - 1)
        startX == Max2(TruncDiv(Min2(p1.Lng, p2.Lng) - minLng, gridSize), 0)
        endX == Min2(TruncDiv(Max2(p1.Lng, p2.Lng) - minLng, gridSize), gridWidth - 1)
    IN startY <= y /\ y <= endY /\ startX <= x /\ x <= endX

\* The segments of grid[y][x] from segment i on, in the order of insertion.
RECURSIVE CellSegments(_, _, _, _, _, _, _, _, _)
CellSegments(polyline, i, minLat, minLng, gridWidth, gridHeight, gridSize, y, x) ==
    IF i >= Len(polyline) THEN <<>>
    ELSE (IF SegmentInCell(polyline, i, minLat, minLng, gridWidth, gridHeight, gridSize, y, x)
            THEN <<i>> ELSE <<>>)
         \o CellSegments(polyline, i + 1, minLat, minLng, gridWidth, gridHeight, gridSize, y, x)

\* The nil pointer of line 1204.
NilIndex == [nil |-> TRUE]

buildPolylineIndex(polyline, gridSize) ==
    IF Len(polyline) < 2 THEN NilIndex
    ELSE LET padding == gridSize
             minLat == MinLatFrom(polyline, 1) - padding
             maxLat == MaxLatFrom(polyline, 1) + padding
             minLng == MinLngFrom(polyline, 1) - padding
             maxLng == MaxLngFrom(polyline, 1) + padding
             gridWidth == Max2(CeilDiv(maxLng - minLng, gridSize), 1)
             gridHeight == Max2(CeilDiv(maxLat - minLat, gridSize), 1)
         IN [nil |-> FALSE, gridSize |-> gridSize,
             minLat |-> minLat, maxLat |-> maxLat,
             minLng |-> minLng, maxLng |-> maxLng,
             gridWidth |-> gridWidth, gridHeight |-> gridHeight,
             grid |-> [y \in 0..(gridHeight - 1) |->
                         [x \in 0..(gridWidth - 1) |->
                             CellSegments(polyline, 1, minLat, minLng, gridWidth,
                                          gridHeight, gridSize, y, x)]],
             polyline |-> polyline]

\* t without math.Max(0, math.Min(1, t)).
UnclampedDot(p, v, w, l2) ==
    (p.Lat - v.Lat) * (w.Lat - v.Lat) + (p.Lng - v.Lng) * (w.Lng - v.Lng)

\* t of lines 1431-1432 as the numerator over l2, clamped to [0, l2].
ClampedDot(p, v, w, l2) ==
    Max2(0, Min2(l2, (p.Lat - v.Lat) * (w.Lat - v.Lat) + (p.Lng - v.Lng) * (w.Lng - v.Lng)))

\* The closest point of lines 1371-1374 and 1434-1435.
ClosestOnSegment(p, v, w) ==
    LET l2 == haversineDistanceSq(v, w)
    IN IF l2 = 0 THEN v
       ELSE LET t == ClampedDot(p, v, w, l2)
            IN [Lat |-> v.Lat + TruncDiv(t * (w.Lat - v.Lat), l2),
                Lng |-> v.Lng + TruncDiv(t * (w.Lng - v.Lng), l2)]

\* The square of distanceToSegment(p, v, w).
distanceToSegmentSq(p, v, w) == haversineDistanceSq(p, ClosestOnSegment(p, v, w))

\* distAlongRoute of lines 1364-1370 for segment i.
AlongSegment(p, polyline, i) ==
    LET p1 == polyline[i]
        p2 == polyline[i + 1]
        l2 == haversineDistanceSq(p1, p2)
    IN IF l2 = 0 THEN CumulativeDist(polyline, i)
       ELSE CumulativeDist(polyline, i)
              + TruncDiv(ClampedDot(p, p1, p2, l2) * SegmentLength(p1, p2), l2)

\* dist < minDist
Closer(dist, minDist) == minDist = MaxFloat64 \/ dist < minDist

\* The loops of lines 1360-1383 and 1397-1421 over the segments segs from
\* position k on, best being the closest segment so far.
RECURSIVE ScanSegments(_, _, _, _, _)
ScanSegments(point, polyline, segs, k, best) ==
    IF k > Len(segs) THEN best
    ELSE LET i == segs[k]
             dist == distanceToSegmentSq(point, polyline[i], polyline[i + 1])
         IN ScanSegments(point, polyline, segs, k + 1,
              IF Closer(dist, best.minDistSq)
                THEN [minDistSq |-> dist,
                      distAlongRoute |-> AlongSegment(point, polyline, i),
                      closestPoint |-> ClosestOnSegment(point, polyline[i], polyline[i + 1])]
                ELSE best)

\* minDist, distAlongRoute and closestPoint before the loop.
NothingCloser == [minDistSq |-> MaxFloat64, distAlongRoute |-> 0, closestPoint |-> ZeroCenter]

distanceToPolyline(point, polyline) ==
    ScanSegments(point, polyline, [i \in 1..(Len(polyline) - 1) |-> i], 1, NothingCloser)

\* Go's int() of the cell of the point (lines 1325-1326).
PointCell(point, index) ==
    [y |-> TruncDiv(point.Lat - index.minLat, index.gridSize),
     x |-> TruncDiv(point.Lng - index.minLng, index.gridSize)]

\* Lines 1329-1338: the segments of the 3x3 cells around the point, from
\* the n-th of the nine on (n = 0..8, dy outer, dx inner).
RECURSIVE CandidateSegments(_, _, _)
CandidateSegments(point, index, n) ==
    IF n > 8 THEN <<>>
    ELSE LET y == PointCell(point, index).y + (n \div 3) - 1
             x == PointCell(point, index).x + (n % 3) - 1
         IN (IF y >= 0 /\ y < index.gridHeight /\ x >= 0 /\ x < index.gridWidth
               THEN index.grid[y][x] ELSE <<>>)
            \o CandidateSegments(point, index, n + 1)

\* Lines 1346-1353: the first occurrence of each segment.
RECURSIVE UniqueSegments(_, _, _)
UniqueSegments(segs, k, seen) ==
    IF k > Len(segs) THEN <<>>
    ELSE IF segs[k] \in seen THEN UniqueSegments(segs, k + 1, seen)
    ELSE <<segs[k]>> \o UniqueSegments(segs, k + 1, seen \cup {segs[k]})

\* The test of line 1341 that never holds.
NoCandidatesNever(candidateSegments) == FALSE

\* Line 1341: len(candidateSegments) == 0
NoCandidates(candidateSegments) == Len(candidateSegments) = 0

\* A nil index is dereferenced in the condition of line 1317 or in the
\* argument of line 1318: the call panics.
Panicked == [panic |-> "nil pointer dereference"]

distanceToPolylineWithIndex(point, index) ==
    IF index.nil THEN Panicked
    ELSE IF Len(index.polyline) < 2 THEN distanceToPolyline(point, index.polyline)
    ELSE LET candidateSegments == CandidateSegments(point, index, 0)
         IN IF NoCandidates(candidateSegments)
              THEN distanceToPolyline(point, index.polyline)
              ELSE ScanSegments(point, index.polyline,
                                UniqueSegments(candidateSegments, 1, {}), 1, NothingCloser)

\* The route points and the query points drawn.
IndexCoords == {0, 2, 5}

IndexPoints == [Lat : IndexCoords, Lng : IndexCoords]

QueryCoords == {-8, -1, 1, 5, 6, 12}

QueryPoints == [Lat : QueryCoords, Lng : QueryCoords]

\* Polylines whose segments run along a parallel or a meridian.
Rectilinear(polyline) ==
    \A i \in 1..(Len(polyline) - 1) :
        polyline[i].Lat = polyline[i + 1].Lat \/ polyline[i].Lng = polyline[i + 1].Lng

IndexPolylines ==
    {pl \in UNION {[1..n -> IndexPoints] : n \in 0..MaxIndexPts} : Rectilinear(pl)}

InitIndex ==
    /\ InitPipe
    /\ CodecIdle
    /\ fn \in {"distanceToPolylineWithIndex", "distanceToPolyline"}
    /\ args \in [polyline : IndexPolylines, point : QueryPoints]
    /\ ret = NoRet

\* processSuperchargers, line 1514, with the index of line 1567.
CallDistanceToPolylineWithIndex ==
    Return("distanceToPolylineWithIndex",
           distanceToPolylineWithIndex(args.point,
                                       buildPolylineIndex(args.polyline, GridSize)))

\* routeHandler, cmd/api/main.go:583, and the fallback of line 1342.
CallDistanceToPolyline ==
    Return("distanceToPolyline", distanceToPolyline(args.point, args.polyline))

NextIndex == CallDistanceToPolylineWithIndex \/ CallDistanceToPolyline

(***************************************************************************)
(* CreateMesh (pkg/maps/mesh.go).  The box is held in the local metre grid *)
(* of lines 21-30: a longitude counts units of sqrt(3)/(2*MeshRes) metres  *)
(* and a latitude units of 3/(4*MeshRes) metres, in which the lattice of   *)
(* lines 34-43 is whole: dx = dy = 2*MeshRes*radius, xOffset =             *)
(* MeshRes*radius, and a point at (a, b) units from a centre is within     *)
(* radius of it iff 12*a^2 + 9*b^2 <= 16*MeshRes^2*radius^2.               *)
(***************************************************************************)
MeshRadii == {-1, 0, 1, 2}

MeshOrigins == {0, 3}

MeshArgs ==
    {[latMin |-> la, latMax |-> la + h, lonMin |-> lo, lonMax |-> lo + w,
      radius |-> r] :
        la \in MeshOrigins, lo \in {0}, h \in -1..MaxBox, w \in -1..MaxBox,
        r \in MeshRadii}

\* The inner loop of lines 53-64: one row of centres from x on.
RECURSIVE MeshRow(_, _, _, _)
MeshRow(a, y, x, dx) ==
    IF x <= a.lonMax - a.lonMin
      THEN <<[Center |-> [Latitude |-> a.latMin + y, Longitude |-> a.lonMin + x],
              Radius |-> a.radius]>>
           \o MeshRow(a, y, x + dx, dx)
      ELSE <<>>

\* The outer loop of lines 46-66: rows from y on, odd rows shifted by xOffset.
RECURSIVE MeshRows(_, _, _)
MeshRows(a, y, row) ==
    LET dx == 2 * MeshRes * a.radius
        dy == 2 * MeshRes * a.radius
    IN IF y <= a.latMax - a.latMin
         THEN MeshRow(a, y, IF row % 2 # 0 THEN dx \div 2 ELSE 0, dx)
              \o MeshRows(a, y + dy, row + 1)
         ELSE <<>>

\* The guard of lines 13-15.
RadiusInvalid(radius) == radius <= 0

\* The centre loop skipped for a box of no area.
MeshTargetsSkipFlat(a) ==
    IF a.latMax = a.latMin /\ a.lonMax = a.lonMin THEN <<>> ELSE MeshRows(a, 0, 0)

MeshTargets(a) == MeshRows(a, 0, 0)

\* CreateMesh returning no circles and no error for a radius it rejects.
CreateMeshSilent(a) ==
    IF RadiusInvalid(a.radius)
      THEN [targets |-> <<>>, err |-> "nil"]
      ELSE [targets |-> MeshTargets(a), err |-> "nil"]

CreateMesh(a) ==
    IF RadiusInvalid(a.radius)
      THEN [targets |-> <<>>, err |-> "radius must be a positive integer"]
      ELSE [targets |-> MeshTargets(a), err |-> "nil"]

InitMesh ==
    /\ InitPipe
    /\ CodecIdle
    /\ fn = "CreateMesh"
    /\ args \in MeshArgs
    /\ ret = NoRet

CallCreateMesh == Return("CreateMesh", CreateMesh(args))

NextMesh == CallCreateMesh

\* A codec run starts from a path to encode or from a raw string to decode.
InitCodec ==
    /\ InitPipe
    /\ CallIdle
    /\ cOut = NoDecode
    /\ cOut2 = NoDecode
    /\ \/ /\ cpc = "path"
          /\ cPath \in Paths
          /\ cEnc = <<>>
       \/ /\ cpc = "raw"
          /\ cPath = <<>>
          /\ cEnc \in RawStrings

Encode ==
    /\ cpc = "path"
    /\ cEnc' = encodePolyline(cPath)
    /\ cpc' = "encoded"
    /\ UNCHANGED <<cPath, cOut, cOut2>>
    /\ UNCHANGED <<pipeVars, callVars>>

Decode ==
    /\ cpc \in {"encoded", "raw"}
    /\ cOut' = decodePolyline(cEnc)
    /\ cOut2' = DecodePolyline(cEnc)
    /\ cpc' = IF cpc = "encoded" THEN "roundtrip" ELSE "decoded"
    /\ UNCHANGED <<cPath, cEnc>>
    /\ UNCHANGED <<pipeVars, callVars>>

NextCodec == Encode \/ Decode

vars == <<pipeVars, catalog, codecVars, callVars>>

Init == InitPipeIn(Catalogs) /\ CodecIdle /\ CallIdle

Next == NextPipe

Spec == Init /\ [][Next]_vars

(***************************************************************************)
(* GetSuperchargerWithCache called by the hydration goroutines of          *)
(* overlapping requests against one database: task <<id, r>> is the call   *)
(* for identity id on behalf of request r.                                 *)
(***************************************************************************)
\* The overlapping requests.
Requests == {1, 2}

InitCache ==
    /\ catalog \in Catalogs
    /\ pc = "process"
    /\ routePts = 2
    /\ nCircles = 1
    /\ ctxCancelled = FALSE
    /\ sPc = [c \in Circles |-> "idle"]
    /\ sRes = [c \in Circles |-> NoSearchResult]
    /\ searchChan = <<>>
    /\ sCloser = "closed"
    /\ hPc \in [IDs \X Circles -> {"none", "lookup"}]
    /\ \A t \in IDs \X Circles : t[2] \notin Requests => hPc[t] = "none"
    /\ seenPlaceIDs = [id \in IDs |-> IF \E c \in Circles : hPc[<<id, c>>] = "lookup"
                                        THEN 1 ELSE 0]
    /\ pendingErr = Nil
    /\ observedErrs = <<>>
    /\ overlap = {}
    /\ hLog = [t \in IDs \X Circles |-> <<>>]
    /\ hRes = [t \in IDs \X Circles |-> NoHydration]
    /\ resultsChan = <<>>
    /\ hCloser = "waiting"
    /\ procPending = {}
    /\ procDone = {}
    /\ errChan = <<>>
    /\ superchargersWithETA = EmptyBag
    /\ mu = {}
    /\ db = {}
    /\ fetched = [id \in IDs |-> NoRow]
    /\ resultVal = NoResult
    /\ resultErr = Nil
    /\ prevResult = [ok |-> FALSE, Superchargers |-> EmptyBag]
    /\ CodecIdle
    /\ CallIdle

NextCache ==
    \/ \E t \in IDs \X Circles : CacheLookup(t)
    \/ \E t \in IDs \X Circles : Fetch(t)
    \/ \E t \in IDs \X Circles : WriteBack(t)

SpecCache == InitCache /\ [][NextCache]_vars

\* The scheduler runs every goroutine that can take a step, and every call
\* of a collaborator returns.
Fairness ==
    /\ \A c \in Circles : WF_vars(SearchTask(c))
    /\ WF_vars(SearchCloser)
    /\ WF_vars(CollectOK)
    /\ WF_vars(CollectErr)
    /\ WF_vars(ReturnSearchErr)
    /\ WF_vars(StartHydration)
    /\ \A t \in IDs \X Circles :
          /\ WF_vars(CacheLookup(t))
          /\ WF_vars(Fetch(t))
          /\ WF_vars(WriteBack(t))
          /\ WF_vars(ProcessOne(t))
          /\ WF_vars(ProcessAppend(t))
    /\ WF_vars(HydrationCloser)
    /\ WF_vars(ProcReceive)
    /\ WF_vars(ProcessReturn)

SpecLive == Init /\ [][Next]_vars /\ Fairness

SpecCodec == InitCodec /\ [][NextCodec]_vars

SpecMesh == InitMesh /\ [][NextMesh]_vars

SpecCircles == InitCircles /\ [][NextCircles]_vars

SpecProfile == InitProfile /\ [][NextProfile]_vars

SpecETA == InitETA /\ [][NextETA]_vars

SpecIndex == InitIndex /\ [][NextIndex]_vars

(***************************************************************************)
(* Properties.                                                             *)
(***************************************************************************)
Range(q) == {q[i] : i \in 1..Len(q)}

Started(t) == hPc[t] # "none"

\* The errors the search goroutines have returned so far.
SearchErrs == {sRes[c].err : c \in Circles} \ {Nil}

\* The errors the hydration goroutines have returned so far.
HydrationErrs == {hRes[t].err : t \in {x \in IDs \X Circles : Started(x)}} \ {Nil}

\* Number of entries of a result list that carry the identity id.
EntriesFor(id, bag) ==
    BagCardinality([e \in {x \in BagToSet(bag) : x.PlaceID = id} |-> bag[e]])

\* C1: when a search goroutine has returned an error, the call never reaches
\* the hydration phase, and once it has returned it has returned the error of
\* a failed search and no result at all.
C1_FailFastSearch ==
    SearchErrs # {} =>
        /\ pc \in {"collect", "searchFailed", "done"}
        /\ hCloser = "idle"
        /\ pc = "done" => (resultVal = NoResult /\ resultErr \in SearchErrs)

\* C1 witness: a search failed after other circles' places had been merged,
\* and the call returned that error without a result.
C1_Witness ==
    /\ pc = "done"
    /\ resultErr.kind = "provider"
    /\ resultErr \in SearchErrs
    /\ Keys(seenPlaceIDs) # {}
    /\ resultVal = NoResult

\* C2: the identity map holds each identity once, every place of a result the
\* collector has read is in it, one hydration goroutine is started per
\* identity of the map, and a returned list has at most one entry per identity.
C2_Dedup ==
    /\ \A id \in IDs : seenPlaceIDs[id] <= 1
    /\ overlap \subseteq Keys(seenPlaceIDs)
    /\ \A c \in Circles :
          (pc = "collect" /\ sPc[c] = "done" /\ c \notin Range(searchChan))
              => sRes[c].places \subseteq Keys(seenPlaceIDs)
    /\ \A id \in IDs :
          Cardinality({t \in IDs \X Circles : t[1] = id /\ Started(t)})
              = IF hCloser = "idle" THEN 0 ELSE seenPlaceIDs[id]
    /\ pc = "done" => \A id \in IDs : EntriesFor(id, resultVal.Superchargers) <= 1

\* C2 witness: identity 1 came back from more than one circle and the call
\* returned a list with exactly one entry.
C2_Witness ==
    /\ pc = "done"
    /\ resultErr = Nil
    /\ 1 \in overlap
    /\ BagCardinality(resultVal.Superchargers) = 1
    /\ EntriesFor(1, resultVal.Superchargers) = 1

\* C3: a returned call has either a result and no error or an error and no
\* result; any failed search or hydration goroutine makes it an error; and a
\* result holds every hydrated supercharger.
C3_AllOrNothing ==
    pc = "done" =>
        /\ \/ (resultErr = Nil /\ resultVal.ok)
           \/ (resultErr # Nil /\ resultVal = NoResult)
        /\ (SearchErrs # {} \/ HydrationErrs # {}) => resultErr # Nil
        /\ resultErr = Nil =>
              \A t \in IDs \X Circles :
                 (Started(t) /\ hRes[t].supercharger.IsSupercharger)
                    => BagIn(hRes[t].supercharger, resultVal.Superchargers)

\* C3 witness: one identity was hydrated and processed, another one failed,
\* and the call returned the error and nothing else.
C3_Witness ==
    /\ pc = "done"
    /\ resultErr \in HydrationErrs
    /\ resultVal = NoResult
    /\ \E t \in IDs \X Circles :
          /\ Started(t)
          /\ hRes[t].err = Nil
          /\ BagIn(hRes[t].supercharger, superchargersWithETA)

\* C8: between the first error the collector reads and its return the context
\* is cancelled, and the error returned is that first error.
C8_FirstErrorCancels ==
    /\ pc = "searchFailed" =>
          (ctxCancelled /\ observedErrs # <<>> /\ pendingErr = Head(observedErrs))
    /\ (pc = "done" /\ observedErrs # <<>>) =>
          (ctxCancelled /\ resultErr = Head(observedErrs) /\ resultVal = NoResult)
    /\ \A c \in Circles : sRes[c].err.kind = "canceled" => observedErrs # <<>>

\* C8 witness: a sibling search was in flight at the cancellation and reported
\* it, and the call returned the provider error read first.
C8_Witness ==
    /\ pc = "done"
    /\ resultErr.kind = "provider"
    /\ resultErr = Head(observedErrs)
    /\ \E c \in Circles : sRes[c].err.kind = "canceled"

LookupEvents == {"get:hit", "get:miss", "get:err"}

Last(q) == q[Len(q)]

\* C4: in every run of GetSuperchargerWithCache the cache lookup is the first
\* call; the detail fetch follows a definite not-found only; a cache write
\* follows a successful detail fetch only; after a hit or a lookup error no
\* other call is made.
C4_CacheAsideOrder ==
    \A t \in IDs \X Circles :
       LET L == hLog[t]
       IN /\ L # <<>> => L[1] \in LookupEvents
          /\ (L # <<>> /\ L[1] # "get:miss") => Len(L) = 1
          /\ \A i \in 1..Len(L) :
                /\ L[i] \in LookupEvents => i = 1
                /\ L[i] \in {"details:ok", "details:err"} =>
                      (i = 2 /\ L[1] = "get:miss")
                /\ L[i] \in {"write:ok", "write:fail"} =>
                      \E j \in 1..(i - 1) : L[j] = "details:ok"

\* C4 witness: in one call an identity is fetched and written after a miss
\* while another one is served by a hit.
C4_Witness ==
    \E t, u \in IDs \X Circles :
       /\ hLog[t] = <<"get:miss", "details:ok", "restaurants:ok", "write:ok">>
       /\ hLog[u] = <<"get:hit">>

\* C5: a goroutine whose write-back failed still returns the fetched entity
\* with a nil error, and no call returns a write error.
C5_WriteFailureRecovered ==
    /\ \A t \in IDs \X Circles :
          (hPc[t] = "done" /\ hLog[t] # <<>> /\ Last(hLog[t]) = "write:fail") =>
              /\ hRes[t].err = Nil
              /\ hRes[t].supercharger =
                    NewSupercharger(PlaceDetails(t[1]),
                                    ContainsSupercharger(PlaceDetails(t[1]).DisplayName))
    /\ (pc = "done" /\ resultErr # Nil) => resultErr.kind # "dbwrite"
    /\ (pc = "done" /\ hCloser # "idle" /\ HydrationErrs = {}) => resultErr = Nil

\* C5 witness: the write-back of supercharger 1 failed and the call returned
\* it in a result with a nil error.
C5_Witness ==
    /\ pc = "done"
    /\ resultErr = Nil
    /\ hLog[<<1, 1>>] = <<"get:miss", "details:ok", "restaurants:ok", "write:fail">>
    /\ BagIn(hRes[<<1, 1>>].supercharger, resultVal.Superchargers)

\* C6: a failed detail fetch ends the run of GetSuperchargerWithCache with
\* that error, no entity and no cache write, and the call then returns an
\* error of a failed hydration and no result.
C6_DetailFailureIsHard ==
    /\ \A t \in IDs \X Circles :
          "details:err" \in Range(hLog[t]) =>
              /\ hLog[t] = <<"get:miss", "details:err">>
              /\ hPc[t] = "done"
              /\ hRes[t] = [supercharger |-> NoRow, err |-> Err("details", t[1])]
              /\ \A r \in db : r.PlaceID # t[1]
    /\ (pc = "done" /\ \E t \in IDs \X Circles : "details:err" \in Range(hLog[t])) =>
          /\ resultVal = NoResult
          /\ resultErr \in HydrationErrs
          /\ HydrationErrs = {Err("details", 1)} => resultErr = Err("details", 1)

\* C6 witness: the detail fetch of identity 1 failed while identity 2 was
\* hydrated, and the call returned the detail error.
C6_Witness ==
    /\ pc = "done"
    /\ resultErr = Err("details", 1)
    /\ resultVal = NoResult
    /\ hPc[<<2, 1>>] = "done"
    /\ hRes[<<2, 1>>].err = Nil

SameEntity(a, b) ==
    /\ a.PlaceID = b.PlaceID
    /\ a.Name = b.Name
    /\ a.Address = b.Address
    /\ a.Latitude = b.Latitude
    /\ a.Longitude = b.Longitude

\* C7: once an identity has been fetched and written back, a later run of
\* GetSuperchargerWithCache for it makes no detail fetch and a hit returns the
\* entity the first run returned; and a call that succeeds returns again
\* every entity of the previous successful call that its search found.
C7_CacheRoundTrip ==
    /\ \A t \in IDs \X Circles :
          (hLog[t] # <<>> /\ fetched[t[1]] # NoRow /\ "write:ok" \notin Range(hLog[t])) =>
              /\ hLog[t] \in {<<"get:hit">>, <<"get:err">>}
              /\ hLog[t] = <<"get:hit">> =>
                    SameEntity(hRes[t].supercharger, fetched[t[1]])
    /\ (pc = "done" /\ resultErr = Nil /\ prevResult.ok) =>
          \A e \in BagToSet(prevResult.Superchargers) :
             e.PlaceID \in Keys(seenPlaceIDs) => BagIn(e, resultVal.Superchargers)

\* C7 witness: the second call serves supercharger 1 from the cache and
\* returns the list of the first call.
C7_Witness ==
    /\ pc = "done"
    /\ resultErr = Nil
    /\ prevResult.ok
    /\ BagCardinality(prevResult.Superchargers) = 1
    /\ fetched[1] # NoRow
    /\ hLog[<<1, 1>>] = <<"get:hit">>
    /\ SameEntity(hRes[<<1, 1>>].supercharger, fetched[1])
    /\ resultVal.Superchargers = prevResult.Superchargers

OnGrid(path) ==
    \A i \in 1..Len(path) : path[i].Lat % 10 = 0 /\ path[i].Lng % 10 = 0

Abs(x) == IF x < 0 THEN -x ELSE x

\* C9: decodePolyline(encodePolyline(p)) returns p without error for every
\* path p whose coordinates are multiples of 1e-5 degrees (any other path
\* comes back within half of 1e-5 degrees), and the empty path encodes to
\* the empty string.
C9_RoundTrip ==
    /\ (cpc = "roundtrip" /\ OnGrid(cPath)) =>
          cOut = [points |-> cPath, err |-> Nil]
    /\ cpc = "roundtrip" =>
          /\ cOut.err = Nil
          /\ Len(cOut.points) = Len(cPath)
          /\ \A i \in 1..Len(cPath) :
                /\ Abs(cOut.points[i].Lat - cPath[i].Lat) <= 5
                /\ Abs(cOut.points[i].Lng - cPath[i].Lng) <= 5
    /\ (cpc \in {"encoded", "roundtrip"} /\ cPath = <<>>) => cEnc = <<>>

\* C9 witness: a two-point path with a long first delta and a negative
\* two-chunk second delta came back unchanged.
C9_Witness ==
    /\ cpc = "roundtrip"
    /\ Len(cPath) = 2
    /\ OnGrid(cPath)
    /\ cPath[1] = [Lat |-> 38500000, Lng |-> -120200000]
    /\ cPath[2] = [Lat |-> 160, Lng |-> -170]
    /\ Len(cEnc) > 4
    /\ cOut = [points |-> cPath, err |-> Nil]

\* The stream ends inside a value: counting values from the start, the last
\* byte carries the continuation bit, or the number of complete values is odd.
RECURSIVE ValuesIn(_, _)
ValuesIn(enc, i) ==
    IF i > Len(enc) THEN 0
    ELSE (IF enc[i] - 63 < 32 THEN 1 ELSE 0) + ValuesIn(enc, i + 1)

Truncated(enc) ==
    /\ enc # <<>>
    /\ \/ enc[Len(enc)] - 63 >= 32
       \/ ValuesIn(enc, 1) % 2 = 1

\* C10: both decoders fail with their malformed-input error and yield no
\* path when the stream ends in the middle of a value or between a latitude
\* and its longitude.
C10_TruncatedFails ==
    (cpc = "decoded" /\ Truncated(cEnc)) =>
        /\ cOut2 = [points |-> <<>>, err |-> MalformedMaps]
        /\ cOut = [points |-> <<>>, err |-> MalformedApi]

MeshReturned == fn = "CreateMesh" /\ ret # NoRet

ValidBox(a) == a.latMin <= a.latMax /\ a.lonMin <= a.lonMax

\* The points of the box on the mesh grid, edges and corners included.
BoxPoints(a) ==
    {[Latitude |-> y, Longitude |-> x] :
        y \in a.latMin..a.latMax, x \in a.lonMin..a.lonMax}

\* p is within radius of the centre of circle c.
WithinCircle(p, c, radius) ==
    12 * (p.Longitude - c.Center.Longitude) * (p.Longitude - c.Center.Longitude)
    + 9 * (p.Latitude - c.Center.Latitude) * (p.Latitude - c.Center.Latitude)
      <= 16 * MeshRes * MeshRes * radius * radius

\* C11: for every box with latMin <= latMax and lonMin <= lonMax and every
\* radius > 0, every point of the box is within radius of the centre of a
\* circle CreateMesh returned.
C11_MeshCoversBox ==
    (MeshReturned /\ ValidBox(args) /\ args.radius > 0) =>
        \A p \in BoxPoints(args) :
           \E i \in 1..Len(ret.targets) : WithinCircle(p, ret.targets[i], args.radius)

\* C13: CreateMesh returns at least one circle for every box with
\* latMin <= latMax and lonMin <= lonMax and radius > 0, and for a box that
\* is a single point exactly one circle, centred on the point with the
\* requested radius.
C13_MeshAtLeastOne ==
    (MeshReturned /\ ValidBox(args) /\ args.radius > 0) =>
        /\ ret.err = "nil"
        /\ Len(ret.targets) >= 1
        /\ (args.latMin = args.latMax /\ args.lonMin = args.lonMax) =>
              ret.targets =
                 <<[Center |-> [Latitude |-> args.latMin, Longitude |-> args.lonMin],
                    Radius |-> args.radius]>>

\* C13 witness: the box that is the single point (3, 0), radius 2.
C13_Witness ==
    /\ MeshReturned
    /\ args = [latMin |-> 3, latMax |-> 3, lonMin |-> 0, lonMax |-> 0, radius |-> 2]
    /\ Len(ret.targets) = 1
    /\ ret.targets[1].Center = [Latitude |-> 3, Longitude |-> 0]

\* C15: CreateMesh returns an error and no circles whenever radius <= 0,
\* whatever the box.
C15_MeshRadiusError ==
    (MeshReturned /\ args.radius <= 0) =>
        /\ ret.err = "radius must be a positive integer"
        /\ ret.targets = <<>>

\* C15 witness: radius 0 on a box of positive area, and radius -1 on an
\* inverted box, have been rejected.
C15_Witness ==
    /\ MeshReturned
    /\ ret.err # "nil"
    /\ \/ args.radius = 0 /\ args.latMax > args.latMin /\ args.lonMax > args.lonMin
       \/ args.radius = -1 /\ args.latMax < args.latMin

CirclesReturned == fn = "PolylineToCircles" /\ ret # NoRet

\* The densified path of the call, computed from its arguments.
DensePath(a) == interpolatePoints(DecodePolyline(a.encodedPolyline).points, 100)

Centres(circles) == {circles[i].Center : i \in 1..Len(circles)}

\* C12: for a non-empty path and radius > 0, every point of the densified
\* path is within radius of the centre of a returned circle, the first
\* circle is centred on the first point of the path, and the final point is
\* the centre of a circle.
C12_RouteCovered ==
    (CirclesReturned /\ args.radius > 0
       /\ DecodePolyline(args.encodedPolyline).err = Nil
       /\ args.encodedPolyline # <<>>) =>
        LET dense == DensePath(args)
        IN /\ ret.err = "nil"
           /\ Len(ret.circles) >= 1
           /\ ret.circles[1].Center = DecodePolyline(args.encodedPolyline).points[1]
           /\ \A i \in 1..Len(ret.circles) : ret.circles[i].Radius = args.radius
           /\ \A i \in 1..Len(dense) :
                 \E c \in Centres(ret.circles) : ~Farther(c, dense[i], args.radius)
           /\ dense[Len(dense)] \in Centres(ret.circles)

\* C12 witness: the route (0,0) -> (2700,0) -> (2700,1800) with radius 150
\* got more than two circles, and its last point a circle of its own.
C12_Witness ==
    /\ CirclesReturned
    /\ args.radius = 150
    /\ DecodePolyline(args.encodedPolyline).points =
          <<[Lat |-> 0, Lng |-> 0], [Lat |-> 2700, Lng |-> 0],
            [Lat |-> 2700, Lng |-> 1800]>>
    /\ Len(DensePath(args)) > 3
    /\ Len(ret.circles) > 2
    /\ ret.circles[Len(ret.circles)].Center = [Lat |-> 2700, Lng |-> 1800]

ProfileReturned ==
    /\ fn \in {"GetSuperchargersOnRoute.profile", "routeHandler.profile"}
    /\ ret # NoRet

\* What the decoder of the called function returns for step i.
StepDecoded(i) ==
    IF fn = "routeHandler.profile"
      THEN decodePolyline(args.Steps[i].EncodedPolyline)
      ELSE DecodePolyline(args.Steps[i].EncodedPolyline)

C17_StepDecodeErrorFatal ==
    (ProfileReturned
       /\ \E i \in 1..Len(args.Steps) : StepDecoded(i).err # Nil) =>
        /\ ret.err # "nil"
        /\ ret.cumulativePoints = <<>>

ETAReturned == fn = "calculateETA" /\ ret # NoRet

\* The seconds calculateETA added to the clock reading.
ETAOffset == ret.arrivalTime - args.now

IndexReturned == fn = "distanceToPolylineWithIndex" /\ ret # NoRet

\* The index the call was given.
BuiltIndex == buildPolylineIndex(args.polyline, GridSize)

\* The points with whole coordinates on the segment from v to w, which lies
\* along a parallel or a meridian.
OnSegment(v, w) ==
    {q \in [Lat : Min2(v.Lat, w.Lat)..Max2(v.Lat, w.Lat),
            Lng : Min2(v.Lng, w.Lng)..Max2(v.Lng, w.Lng)] : TRUE}

OnPolyline ==
    UNION {OnSegment(args.polyline[i], args.polyline[i + 1]) :
              i \in 1..(Len(args.polyline) - 1)}

\* The 3x3 cells around the point hold no segment.
NeighbourhoodEmpty ==
    /\ ~BuiltIndex.nil
    /\ CandidateSegments(args.point, BuiltIndex, 0) = <<>>

\* C19: when the 3x3 cells around the point hold no segment the call
\* returns what the search of all segments returns, the closest point of
\* the whole polyline: no distance and no zero point is made up.
C19_FallbackExhaustive ==
    (IndexReturned /\ NeighbourhoodEmpty) =>
        /\ ret = distanceToPolyline(args.point, args.polyline)
        /\ ret.closestPoint \in OnPolyline
        /\ ret.minDistSq = haversineDistanceSq(args.point, ret.closestPoint)
        /\ \A q \in OnPolyline : ret.minDistSq <= haversineDistanceSq(args.point, q)

\* C19 witness: a point inside the padded bounds of an L-shaped route whose
\* neighbourhood is empty, answered with the corner of the route.
C19_Witness ==
    /\ IndexReturned
    /\ NeighbourhoodEmpty
    /\ args.polyline = <<[Lat |-> 5, Lng |-> 0], [Lat |-> 0, Lng |-> 0],
                         [Lat |-> 0, Lng |-> 5]>>
    /\ args.point = [Lat |-> 6, Lng |-> 6]
    /\ ret.minDistSq = 37

\* No goroutine of lines 1602-1606 is still running.
SearchTasksFinished == \A c \in Circles : sPc[c] # "running"

\* No goroutine of lines 1632-1636 is still running.
HydrationTasksFinished == \A t \in IDs \X Circles : hPc[t] \in {"none", "done"}

\* C20: when the search phase is left, for the hydration phase or by a
\* return to the caller, every search task has finished, and when the call
\* returns every hydration task has finished.
C20_JoinAll ==
    /\ pc \in {"process", "done"} => SearchTasksFinished
    /\ pc = "done" => HydrationTasksFinished

\* C20 as amended: the search phase joins its tasks when it succeeds and the
\* hydration phase joins its tasks whether it succeeds or fails; a search
\* error is returned at once, after cancel() and before any hydration task
\* is started, whatever the other search tasks are doing.
C20_Amended ==
    /\ pc = "process" => SearchTasksFinished
    /\ (pc = "done" /\ pendingErr = Nil) =>
          (SearchTasksFinished /\ HydrationTasksFinished)
    /\ (pc = "done" /\ pendingErr # Nil) =>
          /\ ctxCancelled
          /\ resultErr = pendingErr
          /\ \A t \in IDs \X Circles : hPc[t] = "none"

\* C20 witness: the hydration phase returned an error after two hydration
\* tasks had run to their end.
C20_Witness ==
    /\ pc = "done"
    /\ pendingErr = Nil
    /\ resultErr # Nil
    /\ Cardinality({t \in IDs \X Circles : hPc[t] = "done"}) >= 2
    /\ HydrationTasksFinished

\* The hydration goroutines that have not sent their result yet.
HydrationInFlight == {t \in IDs \X Circles : hPc[t] \notin {"none", "done"}}

\* C21: once processSuperchargers holds the error of a hydration task while
\* sibling hydration tasks are still in flight, the shared context is
\* cancelled; and a call that returns the error returns no entities.
C21_HydrationCancelsSiblings ==
    /\ (pc = "process" /\ errChan # <<>> /\ HydrationInFlight # {}) => ctxCancelled
    /\ (pc = "done" /\ pendingErr = Nil /\ resultErr # Nil) => resultVal = NoResult

\* A step of the collector loop: it takes one result off searchResultsChan.
CollectorStep == pc = "collect" /\ searchChan # <<>> /\ searchChan' = Tail(searchChan)

\* A step that starts the next call, with a fresh map and a fresh slice.
NewCallStep == pc = "done" /\ pc' = "start"

\* A step of a goroutine of processSuperchargers that holds the mutex alone
\* and releases it.
LockedStep == \E t \in IDs \X Circles : mu = {t} /\ mu' = {}

\* C22: the map seenPlaceIDs is written by the collector loop only, never
\* in a step of a search goroutine, and the slice superchargersWithETA is
\* appended to only by the one goroutine that holds the mutex.
C22_NoConcurrentMutation ==
    /\ [](Cardinality(mu) <= 1)
    /\ [][/\ seenPlaceIDs' # seenPlaceIDs => (CollectorStep \/ NewCallStep)
          /\ sPc' # sPc => (seenPlaceIDs' = seenPlaceIDs \/ NewCallStep)
          /\ superchargersWithETA' # superchargersWithETA =>
                (LockedStep \/ NewCallStep)]_vars

\* C22 witness: both identities are in the map, one goroutine of
\* processSuperchargers holds the mutex and another, with a supercharger to
\* append, has not taken it.
C22_Witness ==
    /\ pc = "process"
    /\ Keys(seenPlaceIDs) = IDs
    /\ Cardinality(mu) = 1
    /\ \E u \in procPending \ mu :
          hRes[u].err = Nil /\ hRes[u].supercharger.IsSupercharger

\* Either ETA computation has returned.
AnyETAReturned == fn \in {"calculateETA", "routeHandler.eta"} /\ ret # NoRet

\* The profile points at or beyond the target distance.
AtOrBeyond ==
    {i \in 1..Len(args.cumulativePoints) :
        args.cumulativePoints[i].CumDistKm >= args.distAlongRoute}

\* C23: with a non-empty profile the offset is the cumulative duration of
\* the first profile point at or beyond the target distance, or of the last
\* point when the target is beyond them all, plus the detour at 50 km/h.
C23_ProfileLookup ==
    (AnyETAReturned /\ args.cumulativePoints # <<>>) =>
        LET first == CHOOSE i \in AtOrBeyond : \A j \in AtOrBeyond : i <= j
            chosen == IF AtOrBeyond # {} THEN first ELSE Len(args.cumulativePoints)
        IN ret.arrivalTime - args.now =
              args.cumulativePoints[chosen].CumDurSeconds
              + (args.distFromRoute * 72) \div 1000

\* C23 witness: a target at the distance two profile points share took the
\* duration of the first of them, with a detour of one kilometre.
C23_Witness ==
    /\ fn = "calculateETA"
    /\ ret # NoRet
    /\ Len(args.cumulativePoints) = 4
    /\ args.distAlongRoute = 1000
    /\ args.distFromRoute = 1000
    /\ ret.arrivalTime - args.now = 60 + 72

\* Either search has returned the closest point of a route with a segment.
ClosestReturned ==
    /\ fn \in {"distanceToPolylineWithIndex", "distanceToPolyline"}
    /\ ret # NoRet
    /\ Len(args.polyline) >= 2

\* The length of the whole route.
TotalLength == CumulativeDist(args.polyline, Len(args.polyline))

\* C24: the closest point returned lies on a segment of the route, between
\* its ends, and the distance along the route is the distance to the start
\* of that segment plus the distance from there to the closest point: at
\* least the one, at most the one plus the segment's length, and so between
\* 0 and the length of the route.
C24_ProjectionClamped ==
    ClosestReturned =>
        /\ \E i \in 1..(Len(args.polyline) - 1) :
              LET v == args.polyline[i]
                  w == args.polyline[i + 1]
                  start == CumulativeDist(args.polyline, i)
              IN /\ ret.closestPoint \in OnSegment(v, w)
                 /\ start <= ret.distAlongRoute
                 /\ ret.distAlongRoute <= start + SegmentLength(v, w)
                 /\ (ret.distAlongRoute - start) * (ret.distAlongRoute - start)
                       = haversineDistanceSq(v, ret.closestPoint)
        /\ 0 <= ret.distAlongRoute
        /\ ret.distAlongRoute <= TotalLength

\* C24 witness: a point whose projection on the line of the only segment
\* falls beyond its end is answered with that end.
C24_Witness ==
    /\ ClosestReturned
    /\ fn = "distanceToPolyline"
    /\ args.polyline = <<[Lat |-> 0, Lng |-> 0], [Lat |-> 0, Lng |-> 5]>>
    /\ args.point = [Lat |-> 1, Lng |-> 12]
    /\ ret.closestPoint = [Lat |-> 0, Lng |-> 5]
    /\ ret.distAlongRoute = 5

\* C25: for a route of at least two points the indexed search returns the
\* minimum distance that the search of all segments returns.
C25_IndexEquivalent ==
    (IndexReturned /\ Len(args.polyline) >= 2) =>
        ret.minDistSq = distanceToPolyline(args.point, args.polyline).minDistSq

\* C26: distanceToPolylineWithIndex returns a result for every index that
\* buildPolylineIndex produces, the nil index of a route of fewer than two
\* points included: the call does not panic.
C26_NilIndexSafe == IndexReturned => ret # Panicked

\* A step that sends on searchResultsChan, and one that sends on resultsChan.
SearchSend == Len(searchChan') > Len(searchChan)

HydrationSend == Len(resultsChan') > Len(resultsChan)

\* C27: every search goroutine and every hydration goroutine sends its
\* result and ends, also after the early return on a search error; a send
\* finds room in the buffer of its channel and the channel open; and each
\* closer closes its channel, after all its senders are done.
C27_NoTaskBlocksForever ==
    /\ \A c \in Circles : (sPc[c] = "running") ~> (sPc[c] = "done")
    /\ \A t \in IDs \X Circles : (hPc[t] \notin {"none", "done"}) ~> (hPc[t] = "done")
    /\ (sCloser = "waiting") ~> (sCloser = "closed")
    /\ (hCloser = "waiting") ~> (hCloser = "closed")
    /\ [](sCloser = "closed" => SearchTasksFinished)
    /\ [](hCloser = "closed" => HydrationTasksFinished)
    /\ [](Len(searchChan) <= nCircles)
    /\ [](Len(resultsChan) <= Cardinality(Keys(seenPlaceIDs)))
    /\ [][/\ SearchSend => sCloser' = "waiting"
          /\ HydrationSend => hCloser' = "waiting"
          /\ sCloser = "closed" => sCloser' # "waiting"
          /\ hCloser = "closed" => hCloser' # "waiting"]_vars

\* The history of call t holds the event e.
Logged(t, e) == \E k \in 1..Len(hLog[t]) : hLog[t][k] = e

\* The calls for identity id of two requests have both missed the cache,
\* both been answered by the collaborators, and both returned.
BothMissedAndFetched(id) ==
    \A r \in Requests :
        /\ hPc[<<id, r>>] = "done"
        /\ Logged(<<id, r>>, "get:miss")
        /\ Logged(<<id, r>>, "details:ok")
        /\ ~Logged(<<id, r>>, "restaurants:err")

\* C28: when the calls of two overlapping requests for one identity both
\* miss the cache and both fetch it, both return the entity with a nil
\* error, at most one of the two writes succeeds, and the table holds at
\* most one row for the identity: exactly one when a write succeeded.
C28_ConcurrentHydration ==
    \A id \in IDs :
        BothMissedAndFetched(id) =>
            LET t1 == <<id, 1>>
                t2 == <<id, 2>>
                rows == {x \in db : x.PlaceID = id}
            IN /\ hRes[t1].err = Nil
               /\ hRes[t2].err = Nil
               /\ hRes[t1].supercharger = hRes[t2].supercharger
               /\ hRes[t1].supercharger.PlaceID = id
               /\ hRes[t1].supercharger.Name = catalog[id]
               /\ ~(Logged(t1, "write:ok") /\ Logged(t2, "write:ok"))
               /\ Cardinality(rows) <= 1
               /\ (Logged(t1, "write:ok") \/ Logged(t2, "write:ok")) =>
                     rows = {hRes[t1].supercharger}

\* C28 witness: for the first identity both calls missed and fetched, the
\* first one wrote the row and the write of the second one failed.
C28_Witness ==
    /\ BothMissedAndFetched(1)
    /\ Logged(<<1, 1>>, "write:ok")
    /\ Logged(<<1, 2>>, "write:fail")
    /\ hRes[<<1, 2>>].err = Nil
    /\ Cardinality(db) = 1

\* C29: a call whose cache lookup failed with an error other than the
\* definite not-found has returned that failure as an error, with no entity,
\* and has called neither the detail collaborator nor the insert.
C29_LookupFailureIsHard ==
    /\ [](\A t \in IDs \X Circles :
            Logged(t, "get:err") =>
                /\ hPc[t] = "done"
                /\ hRes[t].err = Err("dbquery", t[1])
                /\ hRes[t].supercharger = NoRow
                /\ hLog[t] = <<"get:err">>)
    /\ [][\A t \in IDs \X Circles :
            (hLog[t] = <<>> /\ hLog'[t] = <<"get:err">>) =>
                (db' = db /\ fetched' = fetched)]_vars

\* C29 witness: with the table still empty, the lookup of the first
\* identity failed and its call returned the error while the call for the
\* second identity went on to fetch.
C29_Witness ==
    /\ pc = "process"
    /\ db = {}
    /\ hLog[<<1, 1>>] = <<"get:err">>
    /\ hRes[<<1, 1>>].err = Err("dbquery", 1)
    /\ Logged(<<2, 1>>, "details:ok")

\* The static duration of step i, the sum of them all, and the traffic-aware
\* duration of the route.
StaticDur(i) == parseDurationString(args.Steps[i].StaticDuration)

SumStatic == SumStaticDur(args.Steps, 1)

RouteDur == parseDurationString(args.Duration)

\* The sum over the steps from i on of trunc(staticStepDur * trafficMultiplier).
RECURSIVE SumScaled(_)
SumScaled(i) ==
    IF i > Len(args.Steps) THEN 0
    ELSE (StaticDur(i) * RouteDur) \div SumStatic + SumScaled(i + 1)

\* Every step decodes to at least one point and has a static duration that
\* is not negative.
EveryStepDecodes ==
    \A i \in 1..Len(args.Steps) :
        /\ StepDecoded(i).err = Nil
        /\ Len(StepDecoded(i).points) > 0
        /\ StaticDur(i) >= 0

\* C30: when every step decodes, a positive sum of static durations makes
\* the cumulative duration of the last profile point the sum over the steps
\* of trunc(staticStepDur * trafficMultiplier), which is at most the
\* duration of the route; a sum of zero makes every cumulative duration 0.
C30_TrafficScaledTotal ==
    (ProfileReturned /\ EveryStepDecodes /\ Len(args.Steps) > 0) =>
        LET cp == ret.cumulativePoints
        IN /\ SumStatic > 0 =>
                 /\ cp[Len(cp)].CumDurSeconds = SumScaled(1)
                 /\ cp[Len(cp)].CumDurSeconds <= RouteDur
           /\ SumStatic = 0 =>
                 \A k \in 1..Len(cp) : cp[k].CumDurSeconds = 0

=============================================================================
